---- MODULE Spec2Model ----
(***************************************************************************)
(* Tantra: the tool-calling conversation loop of Agent (tantra/agent.py),  *)
(* the tool dispatcher (tantra/tools.py) and conversation forking.         *)
(*                                                                         *)
(* Python objects that can be aliased live on a heap: `lists` holds the    *)
(* list objects (an agent's self.messages is a reference into it) and      *)
(* `dicts` holds the message dictionaries the lists refer to.  A reference *)
(* is <<a, i>>: the i-th object allocated by the methods of agent a.       *)
(*                                                                         *)
(* An identifier a names an Agent object and the run() invocation a caller *)
(* makes on it; instance[a] is the Agent object that invocation has as its *)
(* self.  It is a itself, except where two callers invoke one Agent.       *)
(***************************************************************************)
EXTENDS Integers, Sequences, FiniteSets, TLC

\* ------------------------------------------------------------------ bounds
\* largest max_iterations an agent is constructed with
MaxIter == 2
\* number of forks that may be created
MaxForks == 2
\* longest list of tools an agent is constructed with
MaxTools == 2
\* number of turns the slot-filling collector is given
MaxTurns == 3

\* ------------------------------------------------------- program constants
\* max_length passed to format_tool_result when truncation is enabled
TruncateAt == 50000
\* the default of Agent.__init__'s max_iterations
DefaultMaxIterations == 20

\* Python's None
None == "None"

\* ------------------------------------------------------------------- state
VARIABLES
    alive,          \* the Agent objects (and further run() invocation slots)
                    \* in being
    config,         \* per agent: name, system_message, max_iterations, ...
    messages,       \* per agent: self.messages, a reference to a list object
    total_usage,    \* per agent: self.total_usage
    lists,          \* heap of list objects: lists[a][i] is a sequence of dict refs
    dicts,          \* heap of message dicts: dicts[a][i] is a Message
    frame,          \* per agent: the locals and position of its run() call
    result,         \* per agent: the AgentResponse its last run() returned
    backend_calls,  \* per agent: create_completion calls made by its run()
    reported_usage, \* per agent: sum of the usage the backend reported to it
    history,        \* per agent: the calls made on it, and what fork() logged
    instance,       \* per run() invocation: the Agent object that is its self
    contract,       \* the last call of generate_tool_schema and its outcome
    memory,         \* the Memory object: parameter_store and facts
    collector       \* the slot-filling collector's turns: what it was asked,
                    \* what it asked for, what it invoked

\* The state outside the agents: a caller of the library functions and the
\* slot-filling store.
lib == <<contract, memory, collector>>

vars == <<alive, config, messages, total_usage, lists, dicts, frame, result,
          backend_calls, reported_usage, history, instance, lib>>

\* No contract derived by a caller, no Memory constructed, no collector.
NoContract == [made |-> FALSE]
NoMemory == [constructed |-> FALSE]
NoCollector == [turns |-> 0]

LibraryIdle ==
    /\ contract = NoContract
    /\ memory = NoMemory
    /\ collector = NoCollector

Root == 1
AgentIds == Root .. (Root + MaxForks)

\* ------------------------------------------------------------ small helpers
Range(s) == {s[i] : i \in DOMAIN s}

\* Dereferencing.
ListAt(ls, ref) == ls[ref[1]][ref[2]]
DictAt(ds, ref) == ds[ref[1]][ref[2]]

\* The entries of a list object, dereferenced.
Entries(ls, ds, ref) ==
    [i \in 1 .. Len(ListAt(ls, ref)) |-> DictAt(ds, ListAt(ls, ref)[i])]

\* An agent's transcript: the entries of the list self.messages refers to.
Transcript(a) == Entries(lists, dicts, messages[instance[a]])

\* References to the n objects agent a allocates next on a heap h.
NewRefs(h, a, n) == [i \in 1 .. n |-> <<a, Len(h[a]) + i>>]

ZeroUsage == [prompt_tokens |-> 0, completion_tokens |-> 0, total_tokens |-> 0]

NoResult == [returned |-> FALSE]

\* history[a]: the number of run() and add_user_message() calls made on a
\* and, for a fork, the agent it was forked from, the number of messages
\* fork() logged, and the calls made on the parent until then.
NoHistory == [api_calls |-> 0, parent |-> 0, K |-> 0, parent_calls |-> 0]

\* The locals of run(): message and finish_reason are those of the last
\* response; calls, results and finished are the turn's fan-out (finished
\* lists the invocations in the order they completed).
NoMessage == [role |-> None, content |-> None, tool_calls |-> <<>>]

IdleFrame == [pc |-> "idle", task |-> None, iteration |-> 0,
              tool_calls_made |-> <<>>,
              message |-> NoMessage, finish_reason |-> None,
              calls |-> <<>>, results |-> <<>>, finished |-> <<>>]

\* --------------------------------------------------------------- the tools
\* The registry (tool_map) of the agents: tool name -> behaviour of the
\* callable.  get_weather(city) needs its argument, broken() always raises.
ToolNames == {"get_weather", "broken"}

\* as_tool(): the wrapper's __name__ is name.lower().replace(' ', '_').
as_tool_name(name) ==
    CASE name = "Original" -> "original"
      [] name = "Original_fork" -> "original_fork"
      [] name = "Coordinator" -> "coordinator"
      [] OTHER -> name

\* The agent each as_tool wrapper has captured (agent = self), by the name
\* the wrapper is registered under.
AgentTools == [original |-> Root]

\* json.loads on the argument payloads the backend sends.
ArgsMap == "{\"city\": \"Pune\"}"
ArgsEmpty == "{}"
ArgsUnparseable == "{oops"
ArgsList == "[1]"
ArgsTask == "{\"task\": \"Research AI\"}"

json_loads(s) ==
    CASE s = ArgsMap -> [ok |-> TRUE, type |-> "dict", keys |-> <<"city">>,
                         values |-> <<"Pune">>]
      [] s = ArgsTask -> [ok |-> TRUE, type |-> "dict", keys |-> <<"task">>,
                          values |-> <<"Research AI">>]
      [] s = ArgsEmpty -> [ok |-> TRUE, type |-> "dict", keys |-> <<>>,
                           values |-> <<>>]
      [] s = ArgsList -> [ok |-> TRUE, type |-> "list", keys |-> <<>>,
                          values |-> <<>>]
      [] OTHER -> [ok |-> FALSE, type |-> "error", keys |-> <<>>,
                   values |-> <<>>]

\* The text of n copies of s.
RECURSIVE Repeat(_, _)
Repeat(s, n) ==
    IF n = 0 THEN ""
    ELSE IF n % 2 = 1 THEN s \o Repeat(s, n - 1)
    ELSE LET h == Repeat(s, n \div 2) IN h \o h

\* Tools whose results are large: exact_report() returns a str of exactly
\* the truncation threshold, long_report() one character more, and
\* fetch_articles() a dict whose one str value is shorter than the threshold
\* but whose indented JSON form is longer.
ReportTools == {"exact_report", "long_report", "fetch_articles"}

DictTools == {"fetch_articles"}

ReportOf(n) ==
    CASE n = "exact_report" -> Repeat("x", TruncateAt)
      [] n = "long_report" -> Repeat("x", TruncateAt + 1)
      [] n = "fetch_articles" -> Repeat("a", TruncateAt - 10)

\* The callables that finish without awaiting anything: what
\* func(**tool_args) does.  (A wrapper called with its task awaits the run
\* of a fork: see DelegateStarts and DelegateFinishes.)
CallTool(n, args) ==
    CASE n = "get_weather" /\ args.type = "dict" /\ args.keys = <<"city">> ->
            [raised |-> FALSE, value |-> "sunny"]
      [] n = "get_weather" ->
            [raised |-> TRUE,
             value |-> "get_weather() missing 1 required positional argument: 'city'"]
      [] n \in ReportTools -> [raised |-> FALSE, value |-> ReportOf(n)]
      [] n \in DOMAIN AgentTools ->
            [raised |-> TRUE,
             value |-> "Agent.as_tool.<locals>.wrapped_agent_tool() missing 1 required positional argument: 'task'"]
      [] OTHER -> [raised |-> TRUE, value |-> "boom"]

\* The ToolCall invokes a registered as_tool wrapper with a task: the
\* invocation forks the wrapped agent and awaits the fork's run.
Delegates(tool_call, tool_map) ==
    /\ tool_call.function.name \in tool_map
    /\ tool_call.function.name \in DOMAIN AgentTools
    /\ json_loads(tool_call.function.arguments).type = "dict"
    /\ json_loads(tool_call.function.arguments).keys = <<"task">>

\* --------------------------------------------------------- tool dispatcher
\* A dispatcher without the try/except: a fault of the callable escapes.
execute_tool_uncontained(tool_name, tool_args, tool_map) ==
    IF tool_name \notin tool_map
    THEN [raised |-> FALSE, success |-> FALSE, result |-> None,
          error |-> "Unknown tool: " \o tool_name]
    ELSE LET out == CallTool(tool_name, tool_args)
         IN  IF out.raised
             THEN [raised |-> TRUE, error |-> out.value]
             ELSE [raised |-> FALSE, success |-> TRUE, result |-> out.value,
                   error |-> None]

\* A dispatcher without the membership test: tool_map[tool_name] raises
\* KeyError inside the try, and the error reads as str(KeyError(name)).
execute_tool_unchecked(tool_name, tool_args, tool_map) ==
    IF tool_name \notin tool_map
    THEN [raised |-> FALSE, success |-> FALSE, result |-> None,
          error |-> "'" \o tool_name \o "'"]
    ELSE LET out == CallTool(tool_name, tool_args)
         IN  IF out.raised
             THEN [raised |-> FALSE, success |-> FALSE, result |-> None,
                   error |-> out.value]
             ELSE [raised |-> FALSE, success |-> TRUE, result |-> out.value,
                   error |-> None]

\* execute_tool: unknown name, success, or a fault of the callable caught
\* by except Exception.  It always returns (raised = FALSE) an
\* ExecutionResult {success, result, error}.
execute_tool(tool_name, tool_args, tool_map) ==
    IF tool_name \notin tool_map
    THEN [raised |-> FALSE, success |-> FALSE, result |-> None,
          error |-> "Unknown tool: " \o tool_name]
    ELSE LET out == CallTool(tool_name, tool_args)
         IN  IF out.raised
             THEN [raised |-> FALSE, success |-> FALSE, result |-> None,
                   error |-> out.value]
             ELSE [raised |-> FALSE, success |-> TRUE, result |-> out.value,
                   error |-> None]

\* A format_tool_result that also cuts a result of exactly max_length.
format_tool_result_inclusive(res, max_length) ==
    IF max_length # {} /\ \E n \in max_length : Len(res) >= n
    THEN LET n == CHOOSE n \in max_length : TRUE
         IN  SubSeq(res, 1, n) \o "\n\n... [TRUNCATED - Original length: "
                \o ToString(Len(res)) \o " chars, showing first "
                \o ToString(n) \o " chars]"
    ELSE res

\* format_tool_result on a str result; max_length is {} for None, {n} for n.
format_tool_result(res, max_length) ==
    IF max_length # {} /\ \E n \in max_length : Len(res) > n
    THEN LET n == CHOOSE n \in max_length : TRUE
         IN  SubSeq(res, 1, n) \o "\n\n... [TRUNCATED - Original length: "
                \o ToString(Len(res)) \o " chars, showing first "
                \o ToString(n) \o " chars]"
    ELSE res

\* json.dumps({"error": e})
json_dumps_error(e) == "{\"error\": \"" \o e \o "\"}"

\* An execute_single_tool without the except json.JSONDecodeError: the error
\* of a payload that does not parse escapes the coroutine.
execute_single_tool_strict(tool_call, tool_map) ==
    LET parsed == json_loads(tool_call.function.arguments)
        tool_args == [type |-> parsed.type, keys |-> parsed.keys]
    IN  IF ~parsed.ok
        THEN [raised |-> TRUE,
              error |-> "Expecting property name enclosed in double quotes"]
        ELSE IF tool_args.type # "dict"
        THEN [raised |-> TRUE,
              error |-> "'" \o tool_args.type \o "' object has no attribute 'keys'"]
        ELSE LET res == execute_tool(tool_call.function.name, tool_args, tool_map)
             IN  IF res.raised
                 THEN [raised |-> TRUE, error |-> res.error]
                 ELSE [raised |-> FALSE,
                       tool_call |-> tool_call,
                       tool_name |-> tool_call.function.name,
                       tool_args |-> tool_args,
                       result |-> [success |-> res.success,
                                   result |-> res.result,
                                   error |-> res.error]]

\* execute_single_tool, the coroutine gather runs for one ToolCall: the
\* payload is parsed (unparseable -> {}), the log line reads tool_args.keys()
\* (which raises for a payload that is not a map), then execute_tool runs.
execute_single_tool(tool_call, tool_map) ==
    LET parsed == json_loads(tool_call.function.arguments)
        tool_args == IF parsed.ok THEN [type |-> parsed.type, keys |-> parsed.keys]
                     ELSE [type |-> "dict", keys |-> <<>>]
    IN  IF tool_args.type # "dict"
        THEN [raised |-> TRUE,
              error |-> "'" \o tool_args.type \o "' object has no attribute 'keys'"]
        ELSE LET res == execute_tool(tool_call.function.name, tool_args, tool_map)
             IN  IF res.raised
                 THEN [raised |-> TRUE, error |-> res.error]
                 ELSE [raised |-> FALSE,
                       tool_call |-> tool_call,
                       tool_name |-> tool_call.function.name,
                       tool_args |-> tool_args,
                       result |-> [success |-> res.success,
                                   result |-> res.result,
                                   error |-> res.error]]

\* A fan-in that walks the results in the order the invocations completed.
CompletionOrder(fr) == fr.finished

\* The order in which the results of asyncio.gather are walked: gather
\* returns them in the order of its arguments, whatever order they finished.
GatherOrder(fr) == [i \in 1 .. Len(fr.calls) |-> i]

\* The invocation record appended to tool_calls_made for one result.
InvocationRecord(r) ==
    [tool |-> r.tool_name, arguments |-> r.tool_args,
     success |-> r.result.success, error |-> r.result.error]

\* json.dumps(outcome, indent=2) of the dict an as_tool wrapper returns.
json_dumps_str(v) == IF v = None THEN "null" ELSE "\"" \o v \o "\""

json_dumps_indent(outcome) ==
    "{\n  \"status\": " \o json_dumps_str(outcome.status)
        \o (IF outcome.status = "success"
            THEN ",\n  \"result\": " \o json_dumps_str(outcome.result)
            ELSE ",\n  \"error\": " \o json_dumps_str(outcome.error))
        \o ",\n  \"agent\": " \o json_dumps_str(outcome.agent) \o "\n}"

\* json.dumps(result, indent=2) of the dict fetch_articles() returns.
json_dumps_articles(articles) ==
    "{\n  \"articles\": " \o json_dumps_str(articles) \o "\n}"

\* The first branch of format_tool_result: a dict is dumped as indented
\* JSON, a str is taken as it is.
Formatted(r) ==
    IF "fork" \in DOMAIN r THEN json_dumps_indent(r.result.result)
    ELSE IF r.tool_name \in DictTools THEN json_dumps_articles(r.result.result)
    ELSE r.result.result

\* The tool message appended to the transcript for one result.  The result
\* of a wrapper is a dict, which format_tool_result dumps as JSON before it
\* truncates; the results of the other tools are strings.
ToolMessage(r, truncate_tool_results) ==
    [role |-> "tool",
     tool_call_id |-> r.tool_call.id,
     name |-> r.tool_name,
     content |-> IF r.result.success
                 THEN format_tool_result(Formatted(r),
                          IF truncate_tool_results THEN {TruncateAt} ELSE {})
                 ELSE json_dumps_error(r.result.error)]

\* _message_to_dict: content and tool_calls are kept only when truthy.
\* (tool_calls = <<>> stands for None: both are falsy everywhere.)
Truthy(content) == content # None /\ content # ""

_message_to_dict(message) ==
    CASE Truthy(message.content) /\ message.tool_calls # <<>> ->
            [role |-> message.role, content |-> message.content,
             tool_calls |-> message.tool_calls]
      [] Truthy(message.content) /\ message.tool_calls = <<>> ->
            [role |-> message.role, content |-> message.content]
      [] ~Truthy(message.content) /\ message.tool_calls # <<>> ->
            [role |-> message.role, tool_calls |-> message.tool_calls]
      [] OTHER -> [role |-> message.role]

\* ------------------------------------------------------- the backend (LLM)
\* What create_completion can return.  A ToolCall's id is unique in the run.
ToolCall(turn, i, name, arguments) ==
    [id |-> "call_" \o ToString(turn) \o "_" \o ToString(i),
     type |-> "function",
     function |-> [name |-> name, arguments |-> arguments]]

\* The requests a turn can hold: a registered tool with a map payload, with
\* an unparseable payload, with a payload that is not a map; a registered
\* tool that raises; a name that is not registered.
CallKinds == {<<"get_weather", ArgsMap>>, <<"get_weather", ArgsUnparseable>>,
              <<"get_weather", ArgsList>>, <<"broken", ArgsEmpty>>,
              <<"ghost", ArgsEmpty>>}

CallLists == {<<k>> : k \in CallKinds}
                 \cup {<<j, k>> : j \in CallKinds, k \in CallKinds}

ToolCalls(turn, kinds) ==
    [i \in 1 .. Len(kinds) |-> ToolCall(turn, i, kinds[i][1], kinds[i][2])]

ReportedUsage == [prompt_tokens |-> 3, completion_tokens |-> 2, total_tokens |-> 5]

WithUsage(resp) ==
    {resp, [message |-> resp.message, finish_reason |-> resp.finish_reason,
            usage |-> ReportedUsage]}

\* Responses that end the run: a stop, a message without calls that is no
\* stop, and a stop that carries calls all the same.
FinalResponses(turn) ==
    UNION {WithUsage(r) : r \in
        {[message |-> [role |-> "assistant", content |-> "It is sunny.",
                       tool_calls |-> <<>>],
          finish_reason |-> "stop"],
         [message |-> [role |-> "assistant", content |-> None,
                       tool_calls |-> <<>>],
          finish_reason |-> "length"],
         [message |-> [role |-> "assistant", content |-> "",
                       tool_calls |-> ToolCalls(turn, <<<<"get_weather", ArgsMap>>>>)],
          finish_reason |-> "stop"]}}

\* Responses that request capability calls.  Every one reports its usage;
\* the single-call request also comes from a backend that reports none.
CallResponse(turn, ks) ==
    [message |-> [role |-> "assistant", content |-> None,
                  tool_calls |-> ToolCalls(turn, ks)],
     finish_reason |-> "tool_calls",
     usage |-> ReportedUsage]

CallResponses(turn, callLists) ==
    {CallResponse(turn, ks) : ks \in callLists}
        \cup {[message |-> CallResponse(turn, ks).message,
                finish_reason |-> "tool_calls"] :
                    ks \in callLists \cap {<<<<"get_weather", ArgsMap>>>>}}

BackendFault == "Connection error."

\* --------------------------------------------------------------- Agent.run
\* A loop test that admits one more turn.
LoopGuardInclusive(iteration, max_iterations) == iteration <= max_iterations

\* while iteration < self.max_iterations
LoopGuard(iteration, max_iterations) == iteration < max_iterations

\* A return that hands back none of the invocation records.
ResponseWithoutRecords(success, content, ref, fr, usage, error) ==
    [returned |-> TRUE, success |-> success, content |-> content,
     messages |-> ref, tool_calls |-> <<>>,
     iterations |-> fr.iteration, usage |-> usage, error |-> error]

\* The three return statements of run().
AgentResponse(success, content, ref, fr, usage, error) ==
    [returned |-> TRUE, success |-> success, content |-> content,
     messages |-> ref, tool_calls |-> fr.tool_calls_made,
     iterations |-> fr.iteration, usage |-> usage, error |-> error]

MaxIterError(n) == "Max iterations (" \o ToString(n) \o ") reached"

\* The head of the while loop, reached from the start of run() and after a
\* turn's tool calls: either the next backend call is issued or run()
\* returns the max-iterations response.
LoopHead(a, fr) ==
    IF LoopGuard(fr.iteration, config[instance[a]].max_iterations)
    THEN [fr EXCEPT !.pc = "await_backend", !.iteration = @ + 1]
    ELSE [fr EXCEPT !.pc = "return_max_iter"]

\* The effect of reaching the loop head with frame fr, transcript list ref
\* and usage u, after n backend calls of this run.
AtLoopHead(a, fr, ref, u, n) ==
    LET nf == LoopHead(a, fr)
    IN  /\ frame' = [frame EXCEPT ![a] = nf]
        /\ IF nf.pc = "await_backend"
           THEN /\ backend_calls' = [backend_calls EXCEPT ![a] = n + 1]
                /\ result' = result
           ELSE /\ backend_calls' = [backend_calls EXCEPT ![a] = n]
                /\ result' = [result EXCEPT ![a] =
                       AgentResponse(FALSE, None, ref, nf, u,
                           MaxIterError(config[instance[a]].max_iterations))]

\* A run() that starts its accumulator afresh.
RunResettingUsage(a, task) ==
    /\ a \in alive
    /\ LET refs == NewRefs(dicts, a, 2)
           ref == NewRefs(lists, a, 1)[1]
       IN  /\ dicts' = [dicts EXCEPT ![a] =
                           @ \o <<[role |-> "system",
                                   content |-> config[instance[a]].system_message],
                                  [role |-> "user", content |-> task]>>]
           /\ lists' = [lists EXCEPT ![a] = Append(@, refs)]
           /\ messages' = [messages EXCEPT ![instance[a]] = ref]
           /\ AtLoopHead(a, [IdleFrame EXCEPT !.task = task], ref, ZeroUsage, 0)
    /\ total_usage' = [total_usage EXCEPT ![instance[a]] = ZeroUsage]
    /\ history' = [history EXCEPT ![instance[a]].api_calls = @ + 1]
    /\ UNCHANGED <<alive, config, reported_usage, instance, lib>>

\* A run() that continues the conversation: the task is appended to the
\* list self.messages refers to.
RunAppendingTask(a, task) ==
    /\ a \in alive
    /\ LET ref == messages[instance[a]]
       IN  /\ dicts' = [dicts EXCEPT ![a] =
                           Append(@, [role |-> "user", content |-> task])]
           /\ lists' = [lists EXCEPT ![ref[1]][ref[2]] =
                           @ \o NewRefs(dicts, a, 1)]
           /\ messages' = messages
           /\ AtLoopHead(a, [IdleFrame EXCEPT !.task = task], ref,
                         total_usage[instance[a]], 0)
    /\ history' = [history EXCEPT ![instance[a]].api_calls = @ + 1]
    /\ UNCHANGED <<alive, config, total_usage, reported_usage, instance, lib>>

\* run(task) up to its first await: the transcript is bound to a new list
\* [system, user], the locals are initialised, the loop head is reached.
Run(a, task) ==
    /\ a \in alive
    /\ LET refs == NewRefs(dicts, a, 2)
           ref == NewRefs(lists, a, 1)[1]
       IN  /\ dicts' = [dicts EXCEPT ![a] =
                           @ \o <<[role |-> "system",
                                   content |-> config[instance[a]].system_message],
                                  [role |-> "user", content |-> task]>>]
           /\ lists' = [lists EXCEPT ![a] = Append(@, refs)]
           /\ messages' = [messages EXCEPT ![instance[a]] = ref]
           /\ AtLoopHead(a, [IdleFrame EXCEPT !.task = task], ref,
                         total_usage[instance[a]], 0)
    /\ history' = [history EXCEPT ![instance[a]].api_calls = @ + 1]
    /\ UNCHANGED <<alive, config, total_usage, reported_usage, instance, lib>>

\* _call_openai: the usage of a response that reports one is accumulated.
TrackUsage(u, resp) ==
    IF "usage" \in DOMAIN resp
    THEN [prompt_tokens |-> u.prompt_tokens + resp.usage.prompt_tokens,
          completion_tokens |-> u.completion_tokens + resp.usage.completion_tokens,
          total_tokens |-> u.total_tokens + resp.usage.total_tokens]
    ELSE u

\* A test that ends the run only on a message without tool calls.
TerminatesWithoutCalls(resp) == resp.message.tool_calls = <<>>

\* A test that ends the run on the stop reason alone.
TerminatesOnStopOnly(resp) == resp.finish_reason = "stop"

\* if finish_reason == "stop" or not message.tool_calls
Terminates(resp) ==
    resp.finish_reason = "stop" \/ resp.message.tool_calls = <<>>

\* A run() that keeps the list it seeded in a local and appends the
\* assistant message to that list, whatever self.messages refers to by then.
BackendReturnsToOwnList(a, resp) ==
    /\ a \in alive
    /\ frame[a].pc = "await_backend"
    /\ LET fr == [frame[a] EXCEPT !.message = resp.message,
                                  !.finish_reason = resp.finish_reason,
                                  !.calls = <<>>, !.results = <<>>,
                                  !.finished = <<>>]
           u == TrackUsage(total_usage[instance[a]], resp)
           ref == <<a, Len(lists[a])>>
       IN  /\ total_usage' = [total_usage EXCEPT ![instance[a]] = u]
           /\ reported_usage' = [reported_usage EXCEPT ![instance[a]] =
                                    TrackUsage(@, resp)]
           /\ dicts' = [dicts EXCEPT ![a] =
                           Append(@, _message_to_dict(resp.message))]
           /\ lists' = [lists EXCEPT ![ref[1]][ref[2]] =
                           @ \o NewRefs(dicts, a, 1)]
           /\ IF Terminates(resp)
              THEN /\ frame' = [frame EXCEPT ![a] =
                                     [fr EXCEPT !.pc = "return_success"]]
                   /\ result' = [result EXCEPT ![a] =
                          AgentResponse(TRUE, resp.message.content, ref, fr, u, None)]
              ELSE /\ frame' = [frame EXCEPT ![a] =
                          [fr EXCEPT !.pc = "await_gather",
                                     !.calls = resp.message.tool_calls,
                                     !.results = [i \in 1 .. Len(resp.message.tool_calls)
                                                      |-> [raised |-> FALSE]],
                                     !.finished = <<>>]]
                   /\ result' = result
    /\ UNCHANGED <<alive, config, messages, backend_calls, history, instance, lib>>

\* The backend call returns: usage is tracked, the assistant message is
\* appended, and run() either returns the final response or fans the
\* turn's tool calls out to asyncio.gather.
BackendReturns(a, resp) ==
    /\ a \in alive
    /\ frame[a].pc = "await_backend"
    /\ LET fr == [frame[a] EXCEPT !.message = resp.message,
                                  !.finish_reason = resp.finish_reason,
                                  !.calls = <<>>, !.results = <<>>,
                                  !.finished = <<>>]
           u == TrackUsage(total_usage[instance[a]], resp)
           ref == messages[instance[a]]
       IN  /\ total_usage' = [total_usage EXCEPT ![instance[a]] = u]
           /\ reported_usage' = [reported_usage EXCEPT ![instance[a]] =
                                    TrackUsage(@, resp)]
           /\ dicts' = [dicts EXCEPT ![a] =
                           Append(@, _message_to_dict(resp.message))]
           /\ lists' = [lists EXCEPT ![ref[1]][ref[2]] =
                           @ \o NewRefs(dicts, a, 1)]
           /\ IF Terminates(resp)
              THEN /\ frame' = [frame EXCEPT ![a] =
                                     [fr EXCEPT !.pc = "return_success"]]
                   /\ result' = [result EXCEPT ![a] =
                          AgentResponse(TRUE, resp.message.content, ref, fr, u, None)]
              ELSE /\ frame' = [frame EXCEPT ![a] =
                          [fr EXCEPT !.pc = "await_gather",
                                     !.calls = resp.message.tool_calls,
                                     !.results = [i \in 1 .. Len(resp.message.tool_calls)
                                                      |-> [raised |-> FALSE]],
                                     !.finished = <<>>]]
                   /\ result' = result
    /\ UNCHANGED <<alive, config, messages, backend_calls, history, instance, lib>>

\* An except branch that hands back none of the invocation records.
BackendFaultsDroppingRecords(a) ==
    /\ a \in alive
    /\ frame[a].pc = "await_backend"
    /\ frame' = [frame EXCEPT ![a].pc = "return_error"]
    /\ result' = [result EXCEPT ![a] =
           ResponseWithoutRecords(FALSE, None, messages[instance[a]], frame[a],
                                  total_usage[instance[a]], BackendFault)]
    /\ UNCHANGED <<alive, config, messages, total_usage, lists, dicts,
                   backend_calls, reported_usage, history, instance, lib>>

\* An except branch that reports the iterations completed, leaving out the
\* one whose backend call raised.
BackendFaultsUncounted(a) ==
    /\ a \in alive
    /\ frame[a].pc = "await_backend"
    /\ frame' = [frame EXCEPT ![a].pc = "return_error"]
    /\ result' = [result EXCEPT ![a] =
           AgentResponse(FALSE, None, messages[instance[a]],
                         [frame[a] EXCEPT !.iteration = @ - 1],
                         total_usage[instance[a]], BackendFault)]
    /\ UNCHANGED <<alive, config, messages, total_usage, lists, dicts,
                   backend_calls, reported_usage, history, instance, lib>>

\* The backend call raises: except Exception returns the error response.
BackendFaults(a) ==
    /\ a \in alive
    /\ frame[a].pc = "await_backend"
    /\ frame' = [frame EXCEPT ![a].pc = "return_error"]
    /\ result' = [result EXCEPT ![a] =
           AgentResponse(FALSE, None, messages[instance[a]], frame[a], total_usage[instance[a]],
                         BackendFault)]
    /\ UNCHANGED <<alive, config, messages, total_usage, lists, dicts,
                   backend_calls, reported_usage, history, instance, lib>>

\* One of the turn's invocations finishes (in any order) and gather keeps
\* its result at the position of its request.
ToolFinishes(a, i) ==
    /\ a \in alive
    /\ frame[a].pc = "await_gather"
    /\ i \in 1 .. Len(frame[a].calls)
    /\ i \notin Range(frame[a].finished)
    /\ ~Delegates(frame[a].calls[i], config[instance[a]].tool_map)
    /\ LET r == execute_single_tool(frame[a].calls[i], config[instance[a]].tool_map)
       IN  /\ ~r.raised
           /\ frame' = [frame EXCEPT ![a].results[i] = r,
                                     ![a].finished = Append(@, i)]
    /\ UNCHANGED <<alive, config, messages, total_usage, lists, dicts, result,
                   backend_calls, reported_usage, history, instance, lib>>

\* A fan-out that swallows what a coroutine raises and goes on to the next
\* turn without the turn's tool messages.
GatherRaisesAndContinues(a, i) ==
    /\ a \in alive
    /\ frame[a].pc = "await_gather"
    /\ i \in 1 .. Len(frame[a].calls)
    /\ ~Delegates(frame[a].calls[i], config[instance[a]].tool_map)
    /\ execute_single_tool(frame[a].calls[i], config[instance[a]].tool_map).raised
    /\ AtLoopHead(a, frame[a], messages[instance[a]],
                  total_usage[instance[a]], backend_calls[a])
    /\ UNCHANGED <<alive, config, messages, total_usage, lists, dicts,
                   reported_usage, history, instance, lib>>

\* A fan-out that, when a coroutine raises, first appends the records and
\* tool messages of the invocations that have finished and then returns the
\* error response.
GatherRaisesFlushing(a, i) ==
    /\ a \in alive
    /\ frame[a].pc = "await_gather"
    /\ i \in 1 .. Len(frame[a].calls)
    /\ ~Delegates(frame[a].calls[i], config[instance[a]].tool_map)
    /\ LET r == execute_single_tool(frame[a].calls[i], config[instance[a]].tool_map)
           fr == frame[a]
           order == fr.finished
           n == Len(order)
           ref == messages[instance[a]]
           refs == NewRefs(dicts, a, n)
           made == [k \in 1 .. n |-> InvocationRecord(fr.results[order[k]])]
           msgs == [k \in 1 .. n |->
                       ToolMessage(fr.results[order[k]],
                                   config[instance[a]].truncate_tool_results)]
           flushed == [fr EXCEPT !.tool_calls_made = @ \o made,
                                 !.pc = "return_error"]
       IN  /\ r.raised
           /\ dicts' = [dicts EXCEPT ![a] = @ \o msgs]
           /\ lists' = [lists EXCEPT ![ref[1]][ref[2]] = @ \o refs]
           /\ frame' = [frame EXCEPT ![a] = flushed]
           /\ result' = [result EXCEPT ![a] =
                  AgentResponse(FALSE, None, ref, flushed,
                                total_usage[instance[a]], r.error)]
    /\ UNCHANGED <<alive, config, messages, total_usage,
                   backend_calls, reported_usage, history, instance, lib>>

\* One of the turn's coroutines raises outside execute_tool: gather raises
\* it into run(), whose except Exception returns the error response.
GatherRaises(a, i) ==
    /\ a \in alive
    /\ frame[a].pc = "await_gather"
    /\ i \in 1 .. Len(frame[a].calls)
    /\ ~Delegates(frame[a].calls[i], config[instance[a]].tool_map)
    /\ LET r == execute_single_tool(frame[a].calls[i], config[instance[a]].tool_map)
       IN  /\ r.raised
           /\ frame' = [frame EXCEPT ![a].pc = "return_error"]
           /\ result' = [result EXCEPT ![a] =
                  AgentResponse(FALSE, None, messages[instance[a]], frame[a],
                                total_usage[instance[a]], r.error)]
    /\ UNCHANGED <<alive, config, messages, total_usage, lists, dicts,
                   backend_calls, reported_usage, history, instance, lib>>

\* A fan-in that does not wait for the whole turn: as soon as one
\* invocation has finished, the results at hand are appended and the loop
\* head is reached.
FanInEager(a) ==
    /\ a \in alive
    /\ frame[a].pc = "await_gather"
    /\ Len(frame[a].finished) >= 1
    /\ LET fr == frame[a]
           order == CompletionOrder(fr)
           n == Len(order)
           ref == messages[instance[a]]
           refs == NewRefs(dicts, a, n)
           made == [k \in 1 .. n |-> InvocationRecord(fr.results[order[k]])]
           msgs == [k \in 1 .. n |->
                       ToolMessage(fr.results[order[k]],
                                   config[instance[a]].truncate_tool_results)]
       IN  /\ dicts' = [dicts EXCEPT ![a] = @ \o msgs]
           /\ lists' = [lists EXCEPT ![ref[1]][ref[2]] = @ \o refs]
           /\ AtLoopHead(a, [fr EXCEPT !.tool_calls_made = @ \o made], ref,
                         total_usage[instance[a]], backend_calls[a])
    /\ UNCHANGED <<alive, config, messages, total_usage, reported_usage, history,
                   instance, lib>>

\* A fan-in that records the invocations that succeeded only, while every
\* result gets its tool message.
FanInRecordingSuccesses(a) ==
    /\ a \in alive
    /\ frame[a].pc = "await_gather"
    /\ Len(frame[a].finished) = Len(frame[a].calls)
    /\ LET fr == frame[a]
           order == GatherOrder(fr)
           n == Len(order)
           ref == messages[instance[a]]
           refs == NewRefs(dicts, a, n)
           made == SelectSeq([k \in 1 .. n |->
                                 InvocationRecord(fr.results[order[k]])],
                             LAMBDA rec : rec.success)
           msgs == [k \in 1 .. n |->
                       ToolMessage(fr.results[order[k]],
                                   config[instance[a]].truncate_tool_results)]
       IN  /\ dicts' = [dicts EXCEPT ![a] = @ \o msgs]
           /\ lists' = [lists EXCEPT ![ref[1]][ref[2]] = @ \o refs]
           /\ AtLoopHead(a, [fr EXCEPT !.tool_calls_made = @ \o made], ref,
                         total_usage[instance[a]], backend_calls[a])
    /\ UNCHANGED <<alive, config, messages, total_usage, reported_usage, history,
                   instance, lib>>

\* All invocations of the turn have finished: the results are walked in
\* gather's order, each appending its invocation record and its tool
\* message; then the loop head is reached again.
FanIn(a) ==
    /\ a \in alive
    /\ frame[a].pc = "await_gather"
    /\ Len(frame[a].finished) = Len(frame[a].calls)
    /\ LET fr == frame[a]
           order == GatherOrder(fr)
           n == Len(order)
           ref == messages[instance[a]]
           refs == NewRefs(dicts, a, n)
           made == [k \in 1 .. n |-> InvocationRecord(fr.results[order[k]])]
           msgs == [k \in 1 .. n |->
                       ToolMessage(fr.results[order[k]],
                                   config[instance[a]].truncate_tool_results)]
       IN  /\ dicts' = [dicts EXCEPT ![a] = @ \o msgs]
           /\ lists' = [lists EXCEPT ![ref[1]][ref[2]] = @ \o refs]
           /\ AtLoopHead(a, [fr EXCEPT !.tool_calls_made = @ \o made], ref,
                         total_usage[instance[a]], backend_calls[a])
    /\ UNCHANGED <<alive, config, messages, total_usage, reported_usage, history,
                   instance, lib>>

\* -------------------------------------------------------------- Agent.fork
\* self.messages.copy(): a new list object holding the same dict objects.
shallow_copy(ls, ds, ref, f) ==
    [dicts |-> ds,
     lists |-> [ls EXCEPT ![f] = Append(@, ListAt(ls, ref))],
     ref |-> NewRefs(ls, f, 1)[1]]

\* copy.deepcopy(self.messages), called for the new agent f: a new list
\* object holding new dict objects with the contents of the old ones.
\* Yields the heap after the copy and the reference of the copy.
deepcopy(ls, ds, ref, f) ==
    LET n == Len(ListAt(ls, ref))
    IN  [dicts |-> [ds EXCEPT ![f] =
                       @ \o [i \in 1 .. n |-> DictAt(ds, ListAt(ls, ref)[i])]],
         lists |-> [ls EXCEPT ![f] = Append(@, NewRefs(ds, f, n))],
         ref |-> NewRefs(ls, f, 1)[1]]

\* A fork that carries the counters of its parent along.
InheritedUsage(parent_usage) == parent_usage

\* The accumulator of a fork: Agent.__init__ gives every new Agent its own
\* zeroed counters, whatever the parent's are.
ForkedUsage(parent_usage) == ZeroUsage

\* A fork() that leaves max_iterations to the default of Agent.__init__.
ForkWithDefaults(p, f) ==
    /\ p \in alive
    /\ f \in AgentIds \ alive
    /\ \A g \in AgentIds \ alive : f <= g
    /\ LET cp == deepcopy(lists, dicts, messages[p], f)
       IN  /\ lists' = cp.lists
           /\ dicts' = cp.dicts
           /\ messages' = [messages EXCEPT ![f] = cp.ref]
    /\ alive' = alive \cup {f}
    /\ config' = [config EXCEPT ![f] =
                     [config[p] EXCEPT !.name = config[p].name \o "_fork",
                                       !.max_iterations = DefaultMaxIterations]]
    /\ total_usage' = [total_usage EXCEPT ![f] = ForkedUsage(total_usage[p])]
    /\ frame' = [frame EXCEPT ![f] = IdleFrame]
    /\ result' = [result EXCEPT ![f] = NoResult]
    /\ backend_calls' = [backend_calls EXCEPT ![f] = 0]
    /\ reported_usage' = [reported_usage EXCEPT ![f] = ZeroUsage]
    /\ history' = [history EXCEPT ![f] =
                      [api_calls |-> 0, parent |-> p,
                       K |-> Len(ListAt(lists, messages[p])),
                       parent_calls |-> history[p].api_calls]]
    /\ UNCHANGED <<instance, lib>>

\* fork(): a new Agent with the parent's configuration, provider and tools,
\* "<name>_fork" as its name, fresh usage counters, and a deep copy of the
\* parent's messages.  (The empty list Agent.__init__ first binds to
\* forked.messages is dropped at once and is not kept on the heap.)
Fork(p, f) ==
    /\ p \in alive
    /\ f \in AgentIds \ alive
    /\ \A g \in AgentIds \ alive : f <= g
    /\ LET cp == deepcopy(lists, dicts, messages[p], f)
       IN  /\ lists' = cp.lists
           /\ dicts' = cp.dicts
           /\ messages' = [messages EXCEPT ![f] = cp.ref]
    /\ alive' = alive \cup {f}
    /\ config' = [config EXCEPT ![f] =
                     [config[p] EXCEPT !.name = config[p].name \o "_fork"]]
    /\ total_usage' = [total_usage EXCEPT ![f] = ForkedUsage(total_usage[p])]
    /\ frame' = [frame EXCEPT ![f] = IdleFrame]
    /\ result' = [result EXCEPT ![f] = NoResult]
    /\ backend_calls' = [backend_calls EXCEPT ![f] = 0]
    /\ reported_usage' = [reported_usage EXCEPT ![f] = ZeroUsage]
    /\ history' = [history EXCEPT ![f] =
                      [api_calls |-> 0, parent |-> p,
                       K |-> Len(ListAt(lists, messages[p])),
                       parent_calls |-> history[p].api_calls]]
    /\ UNCHANGED <<instance, lib>>

\* ----------------------------------------------------------- str methods
\* The methods of str the schema deriver uses, on strings as sequences of
\* characters.
CharAt(s, i) == SubSeq(s, i, i)

\* s.find(c): the first index of character c in s, 0 when it has none.
find(s, c) ==
    IF \E i \in 1 .. Len(s) : CharAt(s, i) = c
    THEN CHOOSE i \in 1 .. Len(s) :
            /\ CharAt(s, i) = c
            /\ \A j \in 1 .. i - 1 : CharAt(s, j) # c
    ELSE 0

Whitespace == {" ", "\t", "\n"}

\* s.strip()
strip(s) ==
    LET inked == {i \in 1 .. Len(s) : CharAt(s, i) \notin Whitespace}
    IN  IF inked = {} THEN ""
        ELSE SubSeq(s, CHOOSE i \in inked : \A j \in inked : i <= j,
                       CHOOSE i \in inked : \A j \in inked : i >= j)

\* s.split(sep): the pieces between the occurrences of character sep.
RECURSIVE split(_, _)
split(s, sep) ==
    LET i == find(s, sep)
    IN  IF i = 0 THEN <<s>>
        ELSE <<SubSeq(s, 1, i - 1)>> \o split(SubSeq(s, i + 1, Len(s)), sep)

\* s.split(sep, 1): at most one cut.
split1(s, sep) ==
    LET i == find(s, sep)
    IN  IF i = 0 THEN <<s>>
        ELSE <<SubSeq(s, 1, i - 1), SubSeq(s, i + 1, Len(s))>>

\* s.startswith(prefix)
startswith(s, prefix) ==
    Len(s) >= Len(prefix) /\ SubSeq(s, 1, Len(prefix)) = prefix

\* s.lower()
UpperCase == "ABCDEFGHIJKLMNOPQRSTUVWXYZ"
LowerCase == "abcdefghijklmnopqrstuvwxyz"

RECURSIVE lower(_)
lower(s) ==
    IF s = "" THEN ""
    ELSE LET c == CharAt(s, 1)
             k == find(UpperCase, c)
         IN  (IF k = 0 THEN c ELSE CharAt(LowerCase, k))
                \o lower(SubSeq(s, 2, Len(s)))

\* ----------------------------------------------------------- Python dicts
\* A dict with str keys, as the sequence of its items in insertion order.
\* d[k] = v replaces the value of a key the dict has and appends a new key.
Keys(d) == {d[i][1] : i \in DOMAIN d}

Get(d, k) == d[CHOOSE i \in DOMAIN d : d[i][1] = k][2]

Put(d, k, v) ==
    IF k \in Keys(d)
    THEN [i \in DOMAIN d |-> IF d[i][1] = k THEN <<k, v>> ELSE d[i]]
    ELSE Append(d, <<k, v>>)

\* ------------------------------------------------------------------ Memory
\* Python values kept in the store: a str or an int, and str(value).
PyStr(s) == [type |-> "str", v |-> s]
PyInt(n) == [type |-> "int", v |-> n]

str(value) == IF value.type = "int" THEN ToString(value.v) ELSE value.v

\* self.parameter_store = None
NoStore == [tool_name |-> None, parameters |-> <<>>]

\* ToolParameterStore(tool_name=tool_name)
ToolParameterStore(tool_name) == [tool_name |-> tool_name, parameters |-> <<>>]

\* Memory(): no facts, no parameter store.  last_accessed is kept as the
\* set of its keys, and call is the last method called with what it
\* returned.
NoCall == [op |-> None]

Memory ==
    [constructed |-> TRUE, parameter_store |-> NoStore, facts |-> <<>>,
     last_accessed |-> {}, call |-> NoCall]

add_fact(m, key, value) ==
    [m EXCEPT !.facts = Put(@, key, value),
              !.last_accessed = @ \cup {key}]

\* get_fact(key): the value, None for a key the facts do not hold; a key
\* that is held is marked as accessed.
get_fact(m, key) == IF key \in Keys(m.facts) THEN Get(m.facts, key) ELSE None

AfterGetFact(m, key) ==
    IF key \in Keys(m.facts)
    THEN [m EXCEPT !.last_accessed = @ \cup {key}]
    ELSE m

start_collecting_params(m, tool_name) ==
    add_fact([m EXCEPT !.parameter_store = ToolParameterStore(tool_name)],
             "current_tool", tool_name)

\* An add_param that goes on filling the store it finds, whatever tool the
\* store was started for.
add_param_keeping(m, tool_name, param_name, value) ==
    LET started == IF m.parameter_store = NoStore
                   THEN start_collecting_params(m, tool_name)
                   ELSE m
        stored == [started EXCEPT !.parameter_store.parameters =
                                      Put(@, param_name, value)]
    IN  add_fact(stored, tool_name \o "_" \o param_name, str(value))

\* An add_param that starts a new store on every call.
add_param_restarting(m, tool_name, param_name, value) ==
    LET started == start_collecting_params(m, tool_name)
        stored == [started EXCEPT !.parameter_store.parameters =
                                      Put(@, param_name, value)]
    IN  add_fact(stored, tool_name \o "_" \o param_name, str(value))

\* add_param(tool_name, param_name, value): a store for another tool, or
\* none, is replaced by a new store for tool_name first.
add_param(m, tool_name, param_name, value) ==
    LET started == IF m.parameter_store = NoStore
                        \/ m.parameter_store.tool_name # tool_name
                   THEN start_collecting_params(m, tool_name)
                   ELSE m
        stored == [started EXCEPT !.parameter_store.parameters =
                                      Put(@, param_name, value)]
    IN  add_fact(stored, tool_name \o "_" \o param_name, str(value))

\* get_collected_params(tool_name): the dict of the store, {} when the
\* store is none or is another tool's.
get_collected_params(m, tool_name) ==
    IF m.parameter_store = NoStore \/ m.parameter_store.tool_name # tool_name
    THEN <<>>
    ELSE m.parameter_store.parameters

\* A clear that drops the store and leaves the facts.
clear_keeping_facts(m, tool_name) ==
    IF m.parameter_store # NoStore /\ m.parameter_store.tool_name = tool_name
    THEN [m EXCEPT !.parameter_store = NoStore]
    ELSE m

\* clear_collected_params(tool_name): the store of tool_name is dropped,
\* and with it the facts whose key starts with tool_name and current_tool.
clear_collected_params(m, tool_name) ==
    IF m.parameter_store # NoStore /\ m.parameter_store.tool_name = tool_name
    THEN LET dropped == AfterGetFact([m EXCEPT !.parameter_store = NoStore],
                                     "current_tool")
         IN  IF get_fact(dropped, "current_tool") = tool_name
             THEN [dropped EXCEPT !.facts =
                      SelectSeq(@, LAMBDA kv :
                          /\ ~startswith(kv[1], tool_name)
                          /\ kv[1] # "current_tool")]
             ELSE dropped
    ELSE m

\* ---------------------------------------------------------- schema deriver
\* The loop of _parse_docstring_params from line i on; st holds
\* param_docs, in_args_section and current_param.
RECURSIVE ParseLines(_, _, _)
ParseLines(lines, i, st) ==
    IF i > Len(lines) THEN st.param_docs
    ELSE LET stripped == strip(lines[i])
         IN  IF lower(stripped) \in {"args:", "arguments:", "parameters:"}
             THEN ParseLines(lines, i + 1, [st EXCEPT !.in_args_section = TRUE])
             ELSE IF ~st.in_args_section
             THEN ParseLines(lines, i + 1, st)
             \* end of the section: break
             ELSE IF /\ stripped # ""
                     /\ ~startswith(stripped, " ")
                     /\ find(stripped, ":") = 0
             THEN st.param_docs
             \* a new parameter line
             ELSE IF find(stripped, ":") # 0 /\ ~startswith(stripped, " ")
             THEN LET parts == split1(stripped, ":")
                      param_name == strip(parts[1])
                  IN  ParseLines(lines, i + 1,
                         [st EXCEPT !.param_docs =
                                        Put(@, param_name, strip(parts[2])),
                                    !.current_param = param_name])
             \* a continuation of the open parameter
             ELSE IF st.current_param # None /\ stripped # ""
             THEN ParseLines(lines, i + 1,
                     [st EXCEPT !.param_docs =
                         Put(@, st.current_param,
                             Get(@, st.current_param) \o " " \o stripped)])
             ELSE ParseLines(lines, i + 1, st)

\* _parse_docstring_params(docstring): a dict parameter name -> description.
_parse_docstring_params(docstring) ==
    ParseLines(split(docstring, "\n"), 1,
               [param_docs |-> <<>>, in_args_section |-> FALSE,
                current_param |-> None])

\* _python_type_to_json_schema: an annotation is [origin |-> "str"], ...,
\* [origin |-> "Optional", arg |-> t], [origin |-> "List", arg |-> t],
\* [origin |-> "Dict"]; a parameter without annotation is hinted as str.
StrType == [origin |-> "str"]
IntType == [origin |-> "int"]
BoolType == [origin |-> "bool"]
Optional(t) == [origin |-> "Optional", arg |-> t]
List(t) == [origin |-> "List", arg |-> t]

RECURSIVE _python_type_to_json_schema(_)
_python_type_to_json_schema(python_type) ==
    CASE python_type.origin = "str" -> [type |-> "string"]
      [] python_type.origin = "int" -> [type |-> "integer"]
      [] python_type.origin = "float" -> [type |-> "number"]
      [] python_type.origin = "bool" -> [type |-> "boolean"]
      [] python_type.origin = "dict" -> [type |-> "object"]
      [] python_type.origin = "list" ->
            [type |-> "array", items |-> [type |-> "string"]]
      [] python_type.origin = "Optional" ->
            LET schema == _python_type_to_json_schema(python_type.arg)
            IN  [f \in DOMAIN schema \cup {"nullable"} |->
                    IF f = "nullable" THEN TRUE ELSE schema[f]]
      [] python_type.origin = "List" ->
            [type |-> "array",
             items |-> _python_type_to_json_schema(python_type.arg)]
      [] python_type.origin = "Dict" -> [type |-> "object"]
      [] OTHER -> [type |-> "string"]

\* A callable as the deriver sees it: __name__, the parameters of its
\* signature in declared order (name, annotation, whether it has a
\* default), inspect.getdoc (None without a docstring), and the fault
\* inspect.signature or get_type_hints raises on it, if any.
Param(name, annotation, has_default) ==
    [name |-> name, annotation |-> annotation, has_default |-> has_default]

Callable(name, params, doc) ==
    [__name__ |-> name, params |-> params, doc |-> doc, fault |-> None]

test_tool ==
    Callable("test_tool",
        <<Param("city", StrType, FALSE), Param("limit", IntType, TRUE)>>,
        "Test tool for weather.\n\nArgs:\n    city: City name\n    limit: Max results\n    \nReturns:\n    Weather data")

fetch_articles ==
    Callable("fetch_articles",
        <<Param("topic", StrType, FALSE), Param("limit", IntType, TRUE)>>,
        "Fetch articles about a topic.\n\nArgs:\n    topic: The topic to search for\n        (e.g., quantum computing)\n    limit: Maximum number of articles to return")

simple_tool ==
    Callable("simple_tool", <<Param("text", StrType, FALSE)>>, "Simple test tool.")

set_reminder ==
    Callable("set_reminder",
        <<Param("task", StrType, FALSE), Param("time", StrType, FALSE)>>,
        "Simulated reminder setting")

\* def defaults_only(a=1, b: Optional[int] = 2)
defaults_only ==
    Callable("defaults_only",
        <<Param("a", StrType, TRUE), Param("b", Optional(IntType), TRUE)>>, None)

\* a function of a class, not bound: def lookup(self, query: List[int],
\* flag: bool = False)
lookup ==
    Callable("lookup",
        <<Param("self", StrType, FALSE), Param("query", List(IntType), FALSE),
          Param("flag", BoolType, TRUE)>>, None)

\* def bad_hints(x: "Undefined"): get_type_hints raises NameError.
bad_hints ==
    [__name__ |-> "bad_hints", params |-> <<Param("x", StrType, FALSE)>>,
     doc |-> None, fault |-> "name 'Undefined' is not defined"]

\* a str among the tools: inspect.signature raises TypeError.
not_callable ==
    [__name__ |-> None, params |-> <<>>, doc |-> None,
     fault |-> "'notcallable' is not a callable object"]

\* agent.as_tool() of an agent with a name without blanks: the wrapper
\* takes the lower-cased name of the agent and the docstring of agent_tool
\* (here as inspect.getdoc returns it).
as_tool(name, system_message) ==
    Callable(lower(name), <<Param("task", StrType, FALSE)>>,
        "Delegate task to " \o name \o " agent.\n\n"
            \o split(system_message, ".")[1]
            \o "\n\nArgs:\n    task: The task or question to delegate to the "
            \o name \o " agent\n    \nReturns:\n    Agent's response as a dictionary with the result")

\* The wrappers of two agents whose names differ in case only.
researcher_tool == as_tool("Researcher", "You research topics.")
librarian_tool == as_tool("researcher", "You look things up.")

Callables == {test_tool, fetch_articles, simple_tool, set_reminder,
              defaults_only, lookup, bad_hints, not_callable,
              researcher_tool, librarian_tool}

\* The name of the contract, when it is always the callable's own.
OwnName(func, name) == func.__name__

\* func_name = name if name else func.__name__
FuncName(func, name) == IF Truthy(name) THEN name ELSE func.__name__

\* The description: the first line of the override, else of the docstring,
\* else "Execute <name>".
FuncDescription(func, func_name, description) ==
    IF Truthy(description) THEN strip(split(description, "\n")[1])
    ELSE IF Truthy(func.doc) THEN strip(split(func.doc, "\n")[1])
    ELSE "Execute " \o func_name

\* The parameters the loop does not skip.
Declared(func) ==
    SelectSeq(func.params, LAMBDA q : q.name \notin {"self", "cls"})

\* A required list that holds every parameter.
RequiredAll(params) == [i \in DOMAIN params |-> params[i].name]

\* parameters["required"]: the names appended when param.default is
\* inspect.Parameter.empty, in the order of the loop.
Required(params) ==
    LET bare == SelectSeq(params, LAMBDA q : ~q.has_default)
    IN  [i \in DOMAIN bare |-> bare[i].name]

\* parameters["properties"]: per parameter its schema, with the
\* description the docstring gives it, if any.
Properties(params, param_docs) ==
    [i \in DOMAIN params |->
        LET param_schema == _python_type_to_json_schema(params[i].annotation)
        IN  <<params[i].name,
              IF params[i].name \in Keys(param_docs)
              THEN [f \in DOMAIN param_schema \cup {"description"} |->
                       IF f = "description"
                       THEN Get(param_docs, params[i].name)
                       ELSE param_schema[f]]
              ELSE param_schema>>]

\* generate_tool_schema(func, name, description): the Tool, or the fault
\* that inspect.signature or get_type_hints raised.
generate_tool_schema(func, name, description) ==
    IF func.fault # None THEN [raised |-> TRUE, error |-> func.fault]
    ELSE LET doc == IF func.doc = None THEN "" ELSE func.doc
             func_name == FuncName(func, name)
             param_docs == _parse_docstring_params(doc)
         IN  [raised |-> FALSE,
              schema |->
                [type |-> "function",
                 function |->
                    [name |-> func_name,
                     description |-> FuncDescription(func, func_name,
                                                     description),
                     parameters |->
                        [type |-> "object",
                         properties |-> Properties(Declared(func), param_docs),
                         required |-> Required(Declared(func))]]]]

\* A loop that registers the tool before it derives the contract.
RECURSIVE RegisteringFirst(_, _, _)
RegisteringFirst(tools, i, st) ==
    IF i > Len(tools) THEN st
    ELSE LET tool == tools[i]
             out == generate_tool_schema(tool, None, None)
             named == IF tool.__name__ = None THEN st.tool_map
                      ELSE Put(st.tool_map, tool.__name__, tool)
         IN  RegisteringFirst(tools, i + 1,
                IF out.raised THEN [st EXCEPT !.tool_map = named]
                ELSE [schemas |-> Append(st.schemas, out.schema),
                      tool_map |-> named])

\* A loop that leaves a name that is registered with the tool it has.
RECURSIVE KeepingFirst(_, _, _)
KeepingFirst(tools, i, st) ==
    IF i > Len(tools) THEN st
    ELSE LET tool == tools[i]
             out == generate_tool_schema(tool, None, None)
         IN  KeepingFirst(tools, i + 1,
                IF out.raised THEN st
                ELSE [schemas |-> Append(st.schemas, out.schema),
                      tool_map |-> IF tool.__name__ \in Keys(st.tool_map)
                                   THEN st.tool_map
                                   ELSE Put(st.tool_map, tool.__name__, tool)])

\* The loop of _generate_tool_schemas from tool i on: a tool whose
\* derivation raises is logged and left out of schemas and of tool_map;
\* for the others, self.tool_map[tool.__name__] = tool.
RECURSIVE SchemaLoop(_, _, _)
SchemaLoop(tools, i, st) ==
    IF i > Len(tools) THEN st
    ELSE LET tool == tools[i]
             out == generate_tool_schema(tool, None, None)
         IN  SchemaLoop(tools, i + 1,
                IF out.raised THEN st
                ELSE [schemas |-> Append(st.schemas, out.schema),
                      tool_map |-> Put(st.tool_map, tool.__name__, tool)])

\* _generate_tool_schemas(): the schemas, and the dict it made of tool_map.
_generate_tool_schemas(tools) ==
    SchemaLoop(tools, 1, [schemas |-> <<>>, tool_map |-> <<>>])

\* ------------------------------------------------------------ construction
\* Agent(name, system_message, tools, max_iterations, provider): the state
\* after the root agent is constructed.
NoAgent == [name |-> None]

Tasks == {"What is the weather in Pune?"}

Init ==
    /\ alive = {Root}
    /\ \E n \in 0 .. MaxIter :
          config = [a \in AgentIds |->
                      IF a = Root
                      THEN [name |-> "Original",
                            system_message |-> "You are a helpful assistant.",
                            model |-> "gpt-4o",
                            temperature |-> 0,
                            max_tokens |-> None,
                            max_iterations |-> n,
                            tool_choice |-> "auto",
                            truncate_tool_results |-> TRUE,
                            provider |-> "provider#1",
                            tool_map |-> ToolNames]
                      ELSE NoAgent]
    /\ lists = [a \in AgentIds |-> IF a = Root THEN << <<>> >> ELSE <<>>]
    /\ dicts = [a \in AgentIds |-> <<>>]
    /\ messages = [a \in AgentIds |-> IF a = Root THEN <<Root, 1>> ELSE <<a, 0>>]
    /\ total_usage = [a \in AgentIds |-> ZeroUsage]
    /\ frame = [a \in AgentIds |-> IdleFrame]
    /\ result = [a \in AgentIds |-> NoResult]
    /\ backend_calls = [a \in AgentIds |-> 0]
    /\ reported_usage = [a \in AgentIds |-> ZeroUsage]
    /\ history = [a \in AgentIds |-> NoHistory]
    /\ instance = [a \in AgentIds |-> a]
    /\ LibraryIdle


\* ------------------------------------------- one agent, one run (Spec)
\* A caller constructs an agent and awaits one run(); the backend answers
\* each call with any response or a fault, the tools finish in any order.
Start == \E a \in alive, t \in Tasks : frame[a].pc = "idle" /\ Run(a, t)

Respond ==
    \E a \in alive :
        \E resp \in FinalResponses(frame[a].iteration)
                      \cup CallResponses(frame[a].iteration, CallLists) :
            BackendReturns(a, resp)

RespondFault == \E a \in alive : BackendFaults(a)

Finish == \E a \in alive : \E i \in 1 .. Len(frame[a].calls) : ToolFinishes(a, i)

Raise == \E a \in alive : \E i \in 1 .. Len(frame[a].calls) : GatherRaises(a, i)

Gather == \E a \in alive : FanIn(a)

Next == Start \/ Respond \/ RespondFault \/ Finish \/ Raise \/ Gather

Spec == Init /\ [][Next]_vars

\* ------------------------------ one agent, one run, fair (FairSpec)
\* The same run with every backend call completing (it returns or raises),
\* every invocation completing, and the event loop resuming run() once
\* gather is done.  The backend requests one of these lists of calls.
FairCallLists == {<<<<"get_weather", ArgsMap>>>>,
                  <<<<"broken", ArgsEmpty>>, <<"get_weather", ArgsUnparseable>>>>,
                  <<<<"ghost", ArgsEmpty>>, <<"get_weather", ArgsList>>>>}

FairRespond ==
    \E a \in alive :
        \E resp \in FinalResponses(frame[a].iteration)
                      \cup CallResponses(frame[a].iteration, FairCallLists) :
            BackendReturns(a, resp)

FairNext == Start \/ FairRespond \/ RespondFault \/ Finish \/ Raise \/ Gather

FairSpec ==
    /\ Init
    /\ [][FairNext]_vars
    /\ WF_vars(FairRespond \/ RespondFault)
    /\ WF_vars(Finish)
    /\ WF_vars(Raise)
    /\ WF_vars(Gather)

\* ----------------------------------------------------- add_user_message
\* add_user_message(content): a user message is appended to the list
\* self.messages refers to.
add_user_message(a, content) ==
    /\ a \in alive
    /\ dicts' = [dicts EXCEPT ![a] = Append(@, [role |-> "user",
                                                content |-> content])]
    /\ lists' = [lists EXCEPT ![messages[a][1]][messages[a][2]] =
                    @ \o NewRefs(dicts, a, 1)]
    /\ history' = [history EXCEPT ![a].api_calls = @ + 1]
    /\ UNCHANGED <<alive, config, messages, total_usage, frame, result,
                   backend_calls, reported_usage, instance, lib>>

\* -------------------------------------- forks running side by side (ForkSpec)
\* A caller script around one agent: between awaited runs it forks the
\* agent (before, or after, the agent's own run), adds a follow-up message
\* to an agent it has not run yet, and runs the agent and the forks one
\* after the other.  The backend stops or requests one call.
ForkIter == 1

FollowUp == "Focus on seasonal patterns."

ForkInit ==
    /\ Init
    /\ config[Root].max_iterations <= ForkIter

ForkResponses(turn) ==
    {[message |-> [role |-> "assistant", content |-> "It is sunny.",
                   tool_calls |-> <<>>],
      finish_reason |-> "stop", usage |-> ReportedUsage],
     CallResponse(turn, <<<<"get_weather", ArgsMap>>>>)}

ForkStart ==
    \E a \in alive, t \in Tasks :
        /\ frame[a].pc = "idle"
        /\ \A b \in alive : frame[b].pc \notin {"await_backend", "await_gather"}
        /\ Run(a, t)

ForkRespond ==
    \E a \in alive : \E resp \in ForkResponses(frame[a].iteration) :
        BackendReturns(a, resp)

ForkAgent ==
    \E f \in AgentIds :
        /\ \A b \in alive : frame[b].pc \notin {"await_backend", "await_gather"}
        /\ Fork(Root, f)

AddMessage ==
    \E a \in alive :
        /\ frame[a].pc = "idle"
        /\ [role |-> "user", content |-> FollowUp] \notin Range(Transcript(a))
        /\ add_user_message(a, FollowUp)

ForkNext ==
    ForkStart \/ ForkRespond \/ Finish \/ Gather \/ ForkAgent \/ AddMessage

ForkSpec == ForkInit /\ [][ForkNext]_vars

\* ------------------------------ runs side by side (ParallelSpec)
\* A caller forks an agent, before or after the agent's own run, and
\* starts the runs of the agent and of the forks at any moment, as
\* asyncio.gather does with several run() coroutines; the runs interleave
\* at their awaits in every possible way.  The backend stops, requests one
\* call or faults.
ParallelStart ==
    \E a \in alive, t \in Tasks : frame[a].pc = "idle" /\ Run(a, t)

ParallelRespond ==
    \E a \in alive : \E resp \in ForkResponses(frame[a].iteration) :
        BackendReturns(a, resp)

ParallelFork ==
    \E f \in AgentIds :
        /\ frame[Root].pc \notin {"await_backend", "await_gather"}
        /\ Fork(Root, f)

ParallelNext ==
    ParallelStart \/ ParallelRespond \/ RespondFault \/ Finish \/ Gather
        \/ ParallelFork

ParallelSpec == ForkInit /\ [][ParallelNext]_vars

\* ------------------------------------------------------------ Agent.as_tool
\* A wrapper that reports success whatever the fork's run returned.
AlwaysSuccess(response, agent_name) ==
    [status |-> "success", result |-> response.content, agent |-> agent_name]

\* wrapped_agent_tool: the dict returned for the response of the fork's run.
wrapped_agent_tool(response, agent_name) ==
    IF response.success
    THEN [status |-> "success", result |-> response.content,
          agent |-> agent_name]
    ELSE [status |-> "error", error |-> response.error, agent |-> agent_name]

\* A wrapper that awaits agent.run(task) on the wrapped agent itself.
DelegateStartsOnAgent(c, i) ==
    /\ c \in alive
    /\ frame[c].pc = "await_gather"
    /\ i \in 1 .. Len(frame[c].calls)
    /\ i \notin Range(frame[c].finished)
    /\ "fork" \notin DOMAIN frame[c].results[i]
    /\ Delegates(frame[c].calls[i], config[instance[c]].tool_map)
    /\ LET p == AgentTools[frame[c].calls[i].function.name]
           task == json_loads(frame[c].calls[i].function.arguments).values[1]
           ref == NewRefs(lists, p, 1)[1]
           fr == [IdleFrame EXCEPT !.task = task]
           nf == IF LoopGuard(fr.iteration, config[p].max_iterations)
                 THEN [fr EXCEPT !.pc = "await_backend", !.iteration = @ + 1]
                 ELSE [fr EXCEPT !.pc = "return_max_iter"]
       IN  /\ p \in alive
           /\ frame[p].pc \notin {"await_backend", "await_gather"}
           /\ dicts' = [dicts EXCEPT ![p] =
                           @ \o <<[role |-> "system",
                                   content |-> config[p].system_message],
                                  [role |-> "user", content |-> task]>>]
           /\ lists' = [lists EXCEPT ![p] = Append(@, NewRefs(dicts, p, 2))]
           /\ messages' = [messages EXCEPT ![p] = ref]
           /\ history' = [history EXCEPT ![p].api_calls = @ + 1]
           /\ frame' = [frame EXCEPT ![p] = nf,
                                     ![c].results[i] = [raised |-> FALSE,
                                                        fork |-> p]]
           /\ backend_calls' = [backend_calls EXCEPT ![p] =
                                   IF nf.pc = "await_backend" THEN 1 ELSE 0]
           /\ result' = [result EXCEPT ![p] =
                            IF nf.pc = "await_backend" THEN result[p]
                            ELSE AgentResponse(FALSE, None, ref, nf,
                                     total_usage[p],
                                     MaxIterError(config[p].max_iterations))]
    /\ UNCHANGED <<alive, config, total_usage, reported_usage, instance, lib>>

\* An invocation of a wrapper begins: wrapped_agent_tool forks the wrapped
\* agent and calls run(task) on the fork, which seeds the fork's transcript
\* and reaches its first await, all before anything else can happen.
DelegateStarts(c, i) ==
    /\ c \in alive
    /\ frame[c].pc = "await_gather"
    /\ i \in 1 .. Len(frame[c].calls)
    /\ i \notin Range(frame[c].finished)
    /\ "fork" \notin DOMAIN frame[c].results[i]
    /\ Delegates(frame[c].calls[i], config[instance[c]].tool_map)
    /\ \E f \in AgentIds \ alive :
          /\ \A g \in AgentIds \ alive : f <= g
          /\ LET p == AgentTools[frame[c].calls[i].function.name]
                 task == json_loads(frame[c].calls[i].function.arguments).values[1]
                 cp == deepcopy(lists, dicts, messages[p], f)
                 ref == NewRefs(cp.lists, f, 1)[1]
                 cfg == [config[p] EXCEPT !.name = config[p].name \o "_fork"]
                 u == ForkedUsage(total_usage[p])
                 fr == [IdleFrame EXCEPT !.task = task]
                 nf == IF LoopGuard(fr.iteration, cfg.max_iterations)
                       THEN [fr EXCEPT !.pc = "await_backend",
                                       !.iteration = @ + 1]
                       ELSE [fr EXCEPT !.pc = "return_max_iter"]
             IN  /\ p \in alive
                 /\ dicts' = [cp.dicts EXCEPT ![f] =
                                 @ \o <<[role |-> "system",
                                         content |-> cfg.system_message],
                                        [role |-> "user", content |-> task]>>]
                 /\ lists' = [cp.lists EXCEPT ![f] =
                                 Append(@, NewRefs(cp.dicts, f, 2))]
                 /\ messages' = [messages EXCEPT ![f] = ref]
                 /\ alive' = alive \cup {f}
                 /\ config' = [config EXCEPT ![f] = cfg]
                 /\ total_usage' = [total_usage EXCEPT ![f] = u]
                 /\ reported_usage' = [reported_usage EXCEPT ![f] = ZeroUsage]
                 /\ history' = [history EXCEPT ![f] =
                                   [api_calls |-> 1, parent |-> p,
                                    K |-> Len(ListAt(lists, messages[p])),
                                    parent_calls |-> history[p].api_calls]]
                 /\ frame' = [frame EXCEPT ![f] = nf,
                                           ![c].results[i] = [raised |-> FALSE,
                                                              fork |-> f]]
                 /\ backend_calls' = [backend_calls EXCEPT ![f] =
                                         IF nf.pc = "await_backend" THEN 1 ELSE 0]
                 /\ result' = [result EXCEPT ![f] =
                                  IF nf.pc = "await_backend" THEN NoResult
                                  ELSE AgentResponse(FALSE, None, ref, nf, u,
                                           MaxIterError(cfg.max_iterations))]
    /\ UNCHANGED <<instance, lib>>

\* A wrapper that raises the error of a run that failed, which execute_tool
\* turns into a failed result.
DelegateFinishesRaising(c, i) ==
    /\ c \in alive
    /\ frame[c].pc = "await_gather"
    /\ i \in 1 .. Len(frame[c].calls)
    /\ i \notin Range(frame[c].finished)
    /\ "fork" \in DOMAIN frame[c].results[i]
    /\ LET f == frame[c].results[i].fork
           call == frame[c].calls[i]
           parsed == json_loads(call.function.arguments)
           agent == AgentTools[call.function.name]
       IN  /\ frame[f].pc \in {"return_success", "return_max_iter",
                               "return_error"}
           /\ frame' = [frame EXCEPT
                  ![c].results[i] =
                      [raised |-> FALSE,
                       fork |-> f,
                       tool_call |-> call,
                       tool_name |-> call.function.name,
                       tool_args |-> [type |-> parsed.type, keys |-> parsed.keys],
                       result |->
                           IF result[f].success
                           THEN [success |-> TRUE,
                                 result |-> wrapped_agent_tool(result[f],
                                                config[agent].name),
                                 error |-> None]
                           ELSE [success |-> FALSE, result |-> None,
                                 error |-> result[f].error]],
                  ![c].finished = Append(@, i)]
    /\ UNCHANGED <<alive, config, messages, total_usage, lists, dicts, result,
                   backend_calls, reported_usage, history, instance, lib>>

\* The run of the fork has returned: the wrapper returns its dict, which
\* execute_tool hands back as a successful result.
DelegateFinishes(c, i) ==
    /\ c \in alive
    /\ frame[c].pc = "await_gather"
    /\ i \in 1 .. Len(frame[c].calls)
    /\ i \notin Range(frame[c].finished)
    /\ "fork" \in DOMAIN frame[c].results[i]
    /\ LET f == frame[c].results[i].fork
           call == frame[c].calls[i]
           parsed == json_loads(call.function.arguments)
           agent == AgentTools[call.function.name]
       IN  /\ frame[f].pc \in {"return_success", "return_max_iter",
                               "return_error"}
           /\ frame' = [frame EXCEPT
                  ![c].results[i] =
                      [raised |-> FALSE,
                       fork |-> f,
                       tool_call |-> call,
                       tool_name |-> call.function.name,
                       tool_args |-> [type |-> parsed.type, keys |-> parsed.keys],
                       result |-> [success |-> TRUE,
                                   result |-> wrapped_agent_tool(result[f],
                                                  config[agent].name),
                                   error |-> None]],
                  ![c].finished = Append(@, i)]
    /\ UNCHANGED <<alive, config, messages, total_usage, lists, dicts, result,
                   backend_calls, reported_usage, history, instance, lib>>

\* ------------------------------- an agent as a tool (DelegateSpec)
\* A second agent, the coordinator, has the as_tool wrapper of the first
\* among its tools.  The caller runs the first agent (or not), then runs
\* the coordinator, whose backend requests delegations, one or two in a
\* turn, also beside a plain tool and with a payload that lacks the task.
\* The backend of the forks stops, requests one call or faults.
Coordinator == 0

DelegateIds == {Coordinator} \cup AgentIds

AgentConfig(name, system_message, n, tools, provider) ==
    [name |-> name, system_message |-> system_message, model |-> "gpt-4o",
     temperature |-> 0, max_tokens |-> None, max_iterations |-> n,
     tool_choice |-> "auto", truncate_tool_results |-> TRUE,
     provider |-> provider, tool_map |-> tools]

DelegateInit ==
    /\ alive = {Coordinator, Root}
    /\ \E n \in 0 .. ForkIter, m \in 1 .. ForkIter :
          config = [a \in DelegateIds |->
                      CASE a = Root ->
                              AgentConfig("Original",
                                  "You are a helpful assistant.", n, ToolNames,
                                  "provider#1")
                        [] a = Coordinator ->
                              AgentConfig("Coordinator", "You coordinate.", m,
                                  ToolNames \cup {as_tool_name("Original")},
                                  "provider#2")
                        [] OTHER -> NoAgent]
    /\ lists = [a \in DelegateIds |->
                   IF a \in {Coordinator, Root} THEN << <<>> >> ELSE <<>>]
    /\ dicts = [a \in DelegateIds |-> <<>>]
    /\ messages = [a \in DelegateIds |->
                      IF a \in {Coordinator, Root} THEN <<a, 1>> ELSE <<a, 0>>]
    /\ total_usage = [a \in DelegateIds |-> ZeroUsage]
    /\ frame = [a \in DelegateIds |-> IdleFrame]
    /\ result = [a \in DelegateIds |-> NoResult]
    /\ backend_calls = [a \in DelegateIds |-> 0]
    /\ reported_usage = [a \in DelegateIds |-> ZeroUsage]
    /\ history = [a \in DelegateIds |-> NoHistory]
    /\ instance = [a \in DelegateIds |-> a]
    /\ LibraryIdle


DelegatedCall == <<as_tool_name("Original"), ArgsTask>>

DelegateCallLists ==
    {<<DelegatedCall>>, <<DelegatedCall, DelegatedCall>>,
     <<DelegatedCall, <<"get_weather", ArgsMap>>>>,
     <<<<as_tool_name("Original"), ArgsEmpty>>>>}

CoordinatorResponses(turn) ==
    {[message |-> [role |-> "assistant", content |-> "It is sunny.",
                   tool_calls |-> <<>>],
      finish_reason |-> "stop", usage |-> ReportedUsage]}
        \cup {CallResponse(turn, ks) : ks \in DelegateCallLists}

DelegateRunsAgent ==
    \E t \in Tasks :
        /\ frame[Coordinator].pc = "idle"
        /\ frame[Root].pc = "idle"
        /\ Run(Root, t)

DelegateRunsCoordinator ==
    \E t \in Tasks :
        /\ frame[Coordinator].pc = "idle"
        /\ frame[Root].pc \notin {"await_backend", "await_gather"}
        /\ Run(Coordinator, t)

DelegateRespond ==
    \E a \in alive :
        \E resp \in IF a = Coordinator
                     THEN CoordinatorResponses(frame[a].iteration)
                     ELSE ForkResponses(frame[a].iteration) :
            BackendReturns(a, resp)

DelegateStart ==
    \E c \in alive : \E i \in 1 .. Len(frame[c].calls) : DelegateStarts(c, i)

DelegateFinish ==
    \E c \in alive : \E i \in 1 .. Len(frame[c].calls) : DelegateFinishes(c, i)

DelegateNext ==
    DelegateRunsAgent \/ DelegateRunsCoordinator \/ DelegateRespond
        \/ RespondFault \/ Finish \/ Gather \/ DelegateStart
        \/ DelegateFinish

DelegateSpec == DelegateInit /\ [][DelegateNext]_vars

\* ------------------------- two callers of one agent (OverlapSpec)
\* Two callers invoke run() on the same Agent object, each with its own
\* task, at any moment: the second invocation may begin while the first is
\* in progress, or after it has returned.  The two invocations have their
\* own locals and share self: its messages and its accumulator.  The
\* backend stops, requests one call or faults.
Second == Root + 1

Callers == {Root, Second}

OverlapInit ==
    /\ alive = Callers
    /\ \E n \in 0 .. ForkIter :
          config = [a \in AgentIds |->
                      IF a = Root
                      THEN AgentConfig("Original",
                               "You are a helpful assistant.", n, ToolNames,
                               "provider#1")
                      ELSE NoAgent]
    /\ lists = [a \in AgentIds |-> IF a = Root THEN << <<>> >> ELSE <<>>]
    /\ dicts = [a \in AgentIds |-> <<>>]
    /\ messages = [a \in AgentIds |-> IF a = Root THEN <<Root, 1>> ELSE <<a, 0>>]
    /\ total_usage = [a \in AgentIds |-> ZeroUsage]
    /\ frame = [a \in AgentIds |-> IdleFrame]
    /\ result = [a \in AgentIds |-> NoResult]
    /\ backend_calls = [a \in AgentIds |-> 0]
    /\ reported_usage = [a \in AgentIds |-> ZeroUsage]
    /\ history = [a \in AgentIds |-> NoHistory]
    /\ instance = [a \in AgentIds |-> IF a = Second THEN Root ELSE a]
    /\ LibraryIdle


TaskOfCaller(a) ==
    IF a = Root THEN CHOOSE t \in Tasks : TRUE ELSE FollowUp

OverlapStart ==
    \E a \in Callers : frame[a].pc = "idle" /\ Run(a, TaskOfCaller(a))

OverlapRespond ==
    \E a \in Callers : \E resp \in ForkResponses(frame[a].iteration) :
        BackendReturns(a, resp)

OverlapNext ==
    OverlapStart \/ OverlapRespond \/ RespondFault \/ Finish \/ Gather

OverlapSpec == OverlapInit /\ [][OverlapNext]_vars

\* ----------------------------------- tools with large results (TruncSpec)
\* One agent, constructed with truncate_tool_results left on or turned
\* off, whose tools return results at, above and below the threshold; the
\* backend requests one or two of them in a turn, or stops.
TruncCallKinds == {<<n, ArgsEmpty>> : n \in ReportTools}
                      \cup {<<"get_weather", ArgsMap>>}

TruncCallLists == {<<k>> : k \in TruncCallKinds}
                      \cup {<<<<"long_report", ArgsEmpty>>, k>> :
                                k \in TruncCallKinds}

TruncInit ==
    /\ alive = {Root}
    /\ \E n \in 1 .. MaxIter, t \in BOOLEAN :
          config = [a \in AgentIds |->
                      IF a = Root
                      THEN [AgentConfig("Original",
                                "You are a helpful assistant.", n,
                                ToolNames \cup ReportTools, "provider#1")
                              EXCEPT !.truncate_tool_results = t]
                      ELSE NoAgent]
    /\ lists = [a \in AgentIds |-> IF a = Root THEN << <<>> >> ELSE <<>>]
    /\ dicts = [a \in AgentIds |-> <<>>]
    /\ messages = [a \in AgentIds |-> IF a = Root THEN <<Root, 1>> ELSE <<a, 0>>]
    /\ total_usage = [a \in AgentIds |-> ZeroUsage]
    /\ frame = [a \in AgentIds |-> IdleFrame]
    /\ result = [a \in AgentIds |-> NoResult]
    /\ backend_calls = [a \in AgentIds |-> 0]
    /\ reported_usage = [a \in AgentIds |-> ZeroUsage]
    /\ history = [a \in AgentIds |-> NoHistory]
    /\ instance = [a \in AgentIds |-> a]
    /\ LibraryIdle


TruncRespond ==
    \E resp \in ForkResponses(frame[Root].iteration)
                  \cup {CallResponse(frame[Root].iteration, ks) :
                            ks \in TruncCallLists} :
        BackendReturns(Root, resp)

TruncNext == Start \/ TruncRespond \/ Finish \/ Gather

TruncSpec == TruncInit /\ [][TruncNext]_vars

\* ------------------------------------ deriving contracts (SchemaSpec)
\* A caller derives the contract of one callable, with or without a name
\* and a description of its own, or constructs an agent with a list of
\* tools.
agents == <<alive, config, messages, total_usage, lists, dicts, frame, result,
            backend_calls, reported_usage, history, instance>>

\* No Agent has been constructed.
NoAgents ==
    /\ alive = {}
    /\ config = [a \in AgentIds |-> NoAgent]
    /\ lists = [a \in AgentIds |-> <<>>]
    /\ dicts = [a \in AgentIds |-> <<>>]
    /\ messages = [a \in AgentIds |-> <<a, 0>>]
    /\ total_usage = [a \in AgentIds |-> ZeroUsage]
    /\ frame = [a \in AgentIds |-> IdleFrame]
    /\ result = [a \in AgentIds |-> NoResult]
    /\ backend_calls = [a \in AgentIds |-> 0]
    /\ reported_usage = [a \in AgentIds |-> ZeroUsage]
    /\ history = [a \in AgentIds |-> NoHistory]
    /\ instance = [a \in AgentIds |-> a]

SchemaInit == NoAgents /\ LibraryIdle

NameOverrides == {None, "", "search_web"}

DescriptionOverrides == {None, "Search the web.\nReturns the best hits."}

\* schema = generate_tool_schema(func, name, description), called by a
\* caller of the library; a fault is the caller's to handle.
Derive ==
    \E func \in Callables, name \in NameOverrides,
       description \in DescriptionOverrides :
        /\ alive = {}
        /\ ~contract.made
        /\ contract' = [made |-> TRUE, func |-> func, name |-> name,
                        description |-> description,
                        outcome |-> generate_tool_schema(func, name,
                                                         description)]
        /\ UNCHANGED <<agents, memory, collector>>

\* The lists of at most n tools.
RECURSIVE ToolLists(_)
ToolLists(n) ==
    IF n = 0 THEN {<<>>}
    ELSE ToolLists(n - 1)
            \cup {Append(ts, t) : ts \in ToolLists(n - 1), t \in Callables}

\* Agent(name, system_message, tools=tools, provider=provider): __init__
\* keeps the tools, fills tool_map and tool_schemas, and starts with an
\* empty transcript and zero usage.  tool_map is kept as its keys (what the
\* dispatcher tests a name against) and, in tool_funcs, as the dict.
Agent__init__(a, name, system_message, tools, provider) ==
    /\ a \notin alive
    /\ LET derived == _generate_tool_schemas(tools)
           base == AgentConfig(name, system_message, DefaultMaxIterations,
                               Keys(derived.tool_map), provider)
       IN  config' = [config EXCEPT ![a] =
              [f \in DOMAIN base \cup {"tools", "tool_schemas", "tool_funcs"} |->
                  CASE f = "tools" -> tools
                    [] f = "tool_schemas" -> derived.schemas
                    [] f = "tool_funcs" -> derived.tool_map
                    [] OTHER -> base[f]]]
    /\ alive' = alive \cup {a}
    /\ lists' = [lists EXCEPT ![a] = Append(@, <<>>)]
    /\ messages' = [messages EXCEPT ![a] = <<a, Len(lists[a]) + 1>>]
    /\ total_usage' = [total_usage EXCEPT ![a] = ZeroUsage]
    /\ UNCHANGED <<dicts, frame, result, backend_calls, reported_usage,
                   history, instance, lib>>

Construct ==
    \E tools \in ToolLists(MaxTools) :
        /\ ~contract.made
        /\ Agent__init__(Root, "ToolAgent", "You are a helpful assistant.",
                         tools, "provider#1")

\* execute_tool(tool_name, tool_args, agent.tool_map) for a name a contract
\* of the agent advertises: func = tool_map[tool_name] is the callable that
\* runs.  The invocation is kept in the frame of the agent.
Dispatch ==
    \E a \in alive : \E k \in DOMAIN config[a].tool_schemas :
        LET tool_name == config[a].tool_schemas[k].function.name
        IN  /\ frame[a].results = <<>>
            /\ tool_name \in config[a].tool_map
            /\ frame' = [frame EXCEPT ![a].results =
                            <<[raised |-> FALSE, tool_name |-> tool_name,
                               func |-> Get(config[a].tool_funcs, tool_name)]>>]
            /\ UNCHANGED <<alive, config, messages, total_usage, lists, dicts,
                           result, backend_calls, reported_usage, history,
                           instance, lib>>

SchemaNext == Derive \/ Construct \/ Dispatch

SchemaSpec == SchemaInit /\ [][SchemaNext]_vars

\* ------------------------------------- a caller of Memory (MemorySpec)
\* A caller constructs a Memory and calls its parameter methods in any
\* order, for two tools: set_reminder(task, time) and
\* vector_search(query, limit=3).
vector_search ==
    Callable("vector_search",
        <<Param("query", StrType, FALSE),
          Param("limit", Optional(IntType), TRUE)>>,
        "Simulated vector database search")

CollectorTools == {set_reminder, vector_search}

\* What the user supplies for each parameter.
ValueOf(param_name) ==
    CASE param_name = "task" -> PyStr("buy milk")
      [] param_name = "time" -> PyStr("5pm")
      [] param_name = "query" -> PyStr("quantum computing")
      [] param_name = "limit" -> PyInt(5)

ParamNames(func) == {func.params[i].name : i \in DOMAIN func.params}

MemoryInit ==
    /\ NoAgents
    /\ contract = NoContract
    /\ memory = Memory
    /\ collector = NoCollector

MemStart ==
    \E func \in CollectorTools :
        /\ memory' = [start_collecting_params(memory, func.__name__)
                        EXCEPT !.call = [op |-> "start_collecting_params",
                                         tool_name |-> func.__name__]]
        /\ UNCHANGED <<agents, contract, collector>>

MemAdd ==
    \E func \in CollectorTools : \E param_name \in ParamNames(func) :
        /\ memory' = [add_param(memory, func.__name__, param_name,
                                ValueOf(param_name))
                        EXCEPT !.call = [op |-> "add_param",
                                         tool_name |-> func.__name__,
                                         param_name |-> param_name,
                                         value |-> ValueOf(param_name)]]
        /\ UNCHANGED <<agents, contract, collector>>

MemGet ==
    \E func \in CollectorTools :
        /\ memory' = [memory EXCEPT !.call =
                        [op |-> "get_collected_params",
                         tool_name |-> func.__name__,
                         ret |-> get_collected_params(memory, func.__name__)]]
        /\ UNCHANGED <<agents, contract, collector>>

MemClear ==
    \E func \in CollectorTools :
        /\ memory' = [clear_collected_params(memory, func.__name__)
                        EXCEPT !.call = [op |-> "clear_collected_params",
                                         tool_name |-> func.__name__]]
        /\ UNCHANGED <<agents, contract, collector>>

MemoryNext == MemStart \/ MemAdd \/ MemGet \/ MemClear

MemorySpec == MemoryInit /\ [][MemoryNext]_vars

\* ------------------------------ the slot-filling collector (SlotSpec)
\* The collector is given one capability request per turn: a tool and the
\* arguments supplied for it this turn.  It keeps the session in the
\* Memory: a request for another capability than the session's starts a new
\* session, the supplied arguments are stored, and either every required
\* argument is at hand (the capability is invoked with the collected
\* arguments and the session cleared) or the first missing one is asked for.
\* collector.session is the session as the protocol defines it: the
\* capability and the names supplied for it since it became active.
NoSession == [tool |-> None, keys |-> {}]

RequiredOf(func) ==
    generate_tool_schema(func, None, None).schema.function.parameters.required

\* The dicts of arguments a turn can supply for func.
Supplies(func) ==
    {SelectSeq([i \in DOMAIN func.params |->
                   <<func.params[i].name, ValueOf(func.params[i].name)>>],
               LAMBDA kv : kv[1] \in ks) : ks \in SUBSET ParamNames(func)}

RECURSIVE StoreAll(_, _, _, _)
StoreAll(m, tool_name, supplied, i) ==
    IF i > Len(supplied) THEN m
    ELSE StoreAll(add_param(m, tool_name, supplied[i][1], supplied[i][2]),
                  tool_name, supplied, i + 1)

CollectorTurn(func, supplied) ==
    LET tool_name == func.__name__
        started == IF memory.parameter_store.tool_name # tool_name
                   THEN start_collecting_params(memory, tool_name)
                   ELSE memory
        stored == StoreAll(started, tool_name, supplied, 1)
        collected == get_collected_params(stored, tool_name)
        missing == SelectSeq(RequiredOf(func),
                             LAMBDA q : q \notin Keys(collected))
        session == IF collector.turns > 0 /\ collector.session.tool = tool_name
                   THEN [tool |-> tool_name,
                         keys |-> collector.session.keys \cup Keys(supplied)]
                   ELSE [tool |-> tool_name, keys |-> Keys(supplied)]
        before == IF collector.turns = 0 THEN <<>> ELSE collector.invoked
    IN  /\ collector.turns < MaxTurns
        /\ IF missing = <<>>
           THEN /\ memory' = clear_collected_params(stored, tool_name)
                /\ collector' =
                      [turns |-> collector.turns + 1, tool |-> tool_name,
                       supplied |-> supplied, asked |-> <<>>,
                       invoked |-> Append(before,
                                      [tool |-> tool_name,
                                       arguments |-> collected]),
                       met |-> session, session |-> NoSession]
           ELSE /\ memory' = stored
                /\ collector' =
                      [turns |-> collector.turns + 1, tool |-> tool_name,
                       supplied |-> supplied, asked |-> <<missing[1]>>,
                       invoked |-> before,
                       met |-> session, session |-> session]
        /\ UNCHANGED <<agents, contract>>

Turn ==
    \E func \in CollectorTools : \E supplied \in Supplies(func) :
        CollectorTurn(func, supplied)

SlotNext == Turn

SlotSpec == MemoryInit /\ [][SlotNext]_vars

\* ---------------------------------------- notes in the facts (NotesSpec)
\* get_context(): the facts, one "- key: value" line each, under the
\* heading "Known facts:"; no message has been added, so the history part
\* is empty and the context is the facts part alone.
FactLines(m) ==
    [i \in DOMAIN m.facts |-> "- " \o m.facts[i][1] \o ": " \o m.facts[i][2]]

RECURSIVE join(_, _)
join(sep, parts) ==
    IF parts = <<>> THEN ""
    ELSE IF Len(parts) = 1 THEN parts[1]
    ELSE parts[1] \o sep \o join(sep, Tail(parts))

get_context(m) ==
    IF m.facts = <<>> THEN "" ELSE "Known facts:\n" \o join("\n", FactLines(m))

\* A caller keeps notes for three capabilities, one of which has a name
\* that begins with the name of another, and a fact of its own.
NoteTools == {"search", "search_web", "set_reminder"}

NoteParam(tool_name) == IF tool_name = "set_reminder" THEN "task" ELSE "query"

OwnFacts == {<<"search_engine", "duckduckgo">>}

NoteAdd ==
    \E tool_name \in NoteTools :
        /\ memory' = [add_param(memory, tool_name, NoteParam(tool_name),
                                ValueOf(NoteParam(tool_name)))
                        EXCEPT !.call = [op |-> "add_param",
                                         tool_name |-> tool_name,
                                         param_name |-> NoteParam(tool_name),
                                         value |-> ValueOf(NoteParam(tool_name))]]
        /\ UNCHANGED <<agents, contract, collector>>

NoteFact ==
    \E kv \in OwnFacts :
        /\ memory' = [add_fact(memory, kv[1], kv[2])
                        EXCEPT !.call = [op |-> "add_fact", key |-> kv[1]]]
        /\ UNCHANGED <<agents, contract, collector>>

NoteClear ==
    \E tool_name \in NoteTools :
        /\ memory' = [clear_collected_params(memory, tool_name)
                        EXCEPT !.call = [op |-> "clear_collected_params",
                                         tool_name |-> tool_name]]
        /\ UNCHANGED <<agents, contract, collector>>

NoteContext ==
    /\ memory' = [memory EXCEPT !.call = [op |-> "get_context",
                                          ret |-> get_context(memory)]]
    /\ UNCHANGED <<agents, contract, collector>>

NotesNext == NoteAdd \/ NoteFact \/ NoteClear \/ NoteContext

NotesSpec == MemoryInit /\ [][NotesNext]_vars

\* -------------------------------------------------------------------- reset
\* reset(): self.messages is bound to a new, empty list.
reset(a) ==
    /\ a \in alive
    /\ lists' = [lists EXCEPT ![a] = Append(@, <<>>)]
    /\ messages' = [messages EXCEPT ![a] = NewRefs(lists, a, 1)[1]]
    /\ history' = [history EXCEPT ![a].api_calls = @ + 1]
    /\ UNCHANGED <<alive, config, total_usage, dicts, frame, result,
                   backend_calls, reported_usage, instance, lib>>

\* ------------------------------------- the lifetime of an agent (LifeSpec)
\* A caller makes up to MaxOps calls, one after the other, on an agent and
\* the forks it takes of it: run (again and again), reset,
\* add_user_message and fork, in any order.  The backend stops (reporting
\* its usage or not) or requests one call.
MaxOps == 3

RECURSIVE SumCalls(_)
SumCalls(S) ==
    IF S = {} THEN 0
    ELSE LET a == CHOOSE x \in S : TRUE
         IN  history[a].api_calls + SumCalls(S \ {a})

\* The calls made so far: run, reset and add_user_message on each agent,
\* and one fork per agent other than the first.
OpsMade == SumCalls(alive) + Cardinality(alive) - 1

CallerMayAct ==
    /\ OpsMade < MaxOps
    /\ \A b \in alive : frame[b].pc \notin {"await_backend", "await_gather"}

LifeTasks == Tasks \cup {FollowUp}

LifeResponses(turn) ==
    WithUsage([message |-> [role |-> "assistant", content |-> "It is sunny.",
                            tool_calls |-> <<>>],
               finish_reason |-> "stop"])
        \cup {CallResponse(turn, <<<<"get_weather", ArgsMap>>>>)}

LifeRun == \E a \in alive, t \in LifeTasks : CallerMayAct /\ Run(a, t)

LifeReset == \E a \in alive : CallerMayAct /\ reset(a)

LifeAdd == \E a \in alive : CallerMayAct /\ add_user_message(a, FollowUp)

LifeFork == \E p \in alive, f \in AgentIds : CallerMayAct /\ Fork(p, f)

LifeRespond ==
    \E a \in alive : \E resp \in LifeResponses(frame[a].iteration) :
        BackendReturns(a, resp)

LifeNext ==
    LifeRun \/ LifeReset \/ LifeAdd \/ LifeFork \/ LifeRespond
        \/ RespondFault \/ Finish \/ Gather

LifeSpec == ForkInit /\ [][LifeNext]_vars

\* ================================================================= claims
Returned == {"return_success", "return_max_iter", "return_error"}
Running == {"await_backend", "await_gather"}

\* The positions of the assistant entries of a transcript.
AssistantAt(T) == {p \in DOMAIN T : T[p].role = "assistant"}

\* The ToolCalls an entry carries (none for an entry without the key).
CallsOf(m) == IF "tool_calls" \in DOMAIN m THEN m.tool_calls ELSE <<>>

\* The entry at p is followed by the tool messages of its calls, in the
\* order of the calls.
AnsweredInOrder(T, p) ==
    LET tc == CallsOf(T[p])
    IN  /\ p + Len(tc) <= Len(T)
        /\ \A i \in 1 .. Len(tc) :
              /\ T[p + i].role = "tool"
              /\ T[p + i].tool_call_id = tc[i].id
              /\ T[p + i].name = tc[i].function.name

\* C1: the tool messages of a turn follow the assistant entry in request
\* order, whatever order the invocations completed in: the i-th tool message
\* after the assistant entry carries the id and name of the i-th ToolCall.
C1_RequestOrder ==
    \A a \in alive :
        LET T == Transcript(a)
        IN  \A p \in AssistantAt(T) : p < Len(T) => AnsweredInOrder(T, p)

\* C1 witness: a turn of two invocations that completed in reverse order
\* has had its two tool messages appended.
C1_Witness ==
    \E a \in alive :
        LET T == Transcript(a)
        IN  /\ frame[a].pc \in {"await_backend", "return_max_iter"}
            /\ frame[a].finished = <<2, 1>>
            /\ Len(T) >= 5
            /\ T[Len(T)].role = "tool"
            /\ T[Len(T) - 1].role = "tool"
            /\ T[Len(T) - 1].name # T[Len(T)].name
            /\ AnsweredInOrder(T, Len(T) - 2)

\* The assistant entries of a transcript that carry ToolCalls.
RequestsAt(T) == {p \in AssistantAt(T) : CallsOf(T[p]) # <<>>}

\* Sum of the number of ToolCalls over the assistant entries of T.
RECURSIVE CallsUpTo(_, _)
CallsUpTo(T, n) ==
    IF n = 0 THEN 0
    ELSE CallsUpTo(T, n - 1)
           + (IF T[n].role = "assistant" THEN Len(CallsOf(T[n])) ELSE 0)

CallsIn(T) == CallsUpTo(T, Len(T))

IsToolMessage(m) == m.role = "tool"

\* The tool messages of a transcript, in order.
ToolMessages(T) == SelectSeq(T, IsToolMessage)

\* Every backend call of a's run was answered by a request for capability
\* calls that was no stop.
OnlyCallRequests(a) ==
    /\ frame[a].pc # "return_success"
    /\ Cardinality(RequestsAt(Transcript(a))) = backend_calls[a]

\* C2: with a backend that requests a capability call on every turn and
\* never signals stop, run() makes exactly max_iterations backend calls and
\* ends in DONE_MAX_ITER with success = false; there is never a further call.
C2_ExactlyMaxIterations ==
    \A a \in alive :
        /\ backend_calls[a] <= config[a].max_iterations
        /\ (frame[a].pc \in Returned /\ OnlyCallRequests(a)) =>
              /\ frame[a].pc = "return_max_iter"
              /\ backend_calls[a] = config[a].max_iterations
              /\ result[a].success = FALSE

\* The two seed entries of the run.
Seeded(a, T) ==
    /\ Len(T) >= 2
    /\ T[1] = [role |-> "system", content |-> config[a].system_message]
    /\ T[2] = [role |-> "user", content |-> frame[a].task]

\* C3: a run that ends in DONE_MAX_ITER returns error "Max iterations (<N>)
\* reached" and everything it gathered: the seeds and, for each of the N
\* turns, the assistant entry and one tool message per requested call; one
\* invocation record per dispatched call; the usage accumulated.
C3_MaxIterKeepsAll ==
    \A a \in alive :
        frame[a].pc = "return_max_iter" =>
            LET T == Transcript(a)
                n == config[a].max_iterations
                r == result[a]
            IN  /\ r.success = FALSE
                /\ r.content = None
                /\ r.error = "Max iterations (" \o ToString(n) \o ") reached"
                /\ Entries(lists, dicts, r.messages) = T
                /\ Seeded(a, T)
                /\ Cardinality(AssistantAt(T)) = n
                /\ \A p \in AssistantAt(T) :
                      CallsOf(T[p]) # <<>> /\ AnsweredInOrder(T, p)
                /\ Len(T) = 2 + n + CallsIn(T)
                /\ Len(r.tool_calls) = CallsIn(T)
                /\ \A k \in 1 .. Len(r.tool_calls) :
                      r.tool_calls[k].tool = ToolMessages(T)[k].name
                /\ r.iterations = n
                /\ r.usage = reported_usage[a]

\* C3 witness: a run of two turns ended in DONE_MAX_ITER with three
\* invocations recorded and usage accumulated.
C3_Witness ==
    \E a \in alive :
        /\ frame[a].pc = "return_max_iter"
        /\ config[a].max_iterations = 2
        /\ Len(result[a].tool_calls) = 3
        /\ result[a].usage.total_tokens > 0

\* C4: on the first turn whose response signals termination (finish reason
\* stop, or no capability calls) run() appends that assistant message and
\* ends in DONE_SUCCESS: success, no error, the message's content, the full
\* transcript, the records of the earlier turns, the iteration count and a
\* snapshot of the usage.
C4_StopEndsInSuccess ==
    \A a \in alive :
        LET fr == frame[a]
            T == Transcript(a)
            r == result[a]
        IN  /\ fr.pc = "return_success" <=>
                  /\ fr.finish_reason # None
                  /\ (fr.finish_reason = "stop" \/ fr.message.tool_calls = <<>>)
            /\ fr.pc = "return_success" =>
                  /\ r.success = TRUE
                  /\ r.error = None
                  /\ r.content = fr.message.content
                  /\ Entries(lists, dicts, r.messages) = T
                  /\ Seeded(a, T)
                  /\ T[Len(T)].role = "assistant"
                  /\ CallsOf(T[Len(T)]) = fr.message.tool_calls
                  /\ ("content" \in DOMAIN T[Len(T)] =>
                          T[Len(T)].content = fr.message.content)
                  /\ \A p \in AssistantAt(T) \ {Len(T)} :
                          CallsOf(T[p]) # <<>> /\ AnsweredInOrder(T, p)
                  /\ Len(T) = 2 + fr.iteration + CallsIn(T)
                             - Len(fr.message.tool_calls)
                  /\ Len(r.tool_calls) = CallsIn(T) - Len(fr.message.tool_calls)
                  /\ r.tool_calls = fr.tool_calls_made
                  /\ r.iterations = fr.iteration
                  /\ r.iterations = Cardinality(AssistantAt(T))
                  /\ r.usage = reported_usage[a]

\* C4 witness: a run ended in DONE_SUCCESS on its second turn, on a message
\* without capability calls whose finish reason is not stop, after a first
\* turn that dispatched two invocations.
C4_Witness ==
    \E a \in alive :
        /\ frame[a].pc = "return_success"
        /\ frame[a].iteration = 2
        /\ frame[a].finish_reason = "length"
        /\ Len(result[a].tool_calls) = 2

\* What the callable of a registered ToolCall does with its payload.
Outcome(call) ==
    LET parsed == json_loads(call.function.arguments)
    IN  CallTool(call.function.name,
                 IF parsed.ok THEN [type |-> parsed.type, keys |-> parsed.keys]
                 ELSE [type |-> "dict", keys |-> <<>>])

\* The descriptions of the faults the registered capabilities raise.
CapabilityFaults ==
    {"boom", "get_weather() missing 1 required positional argument: 'city'"}

\* C5: a fault raised by a capability never interrupts the loop: the
\* faulting invocation yields a tool message carrying the error
\* description, the other invocations of the turn yield theirs, and the run
\* goes on to the loop head; run() never ends in DONE_ERROR on the fault of
\* a capability.
C5_CapabilityFaultContained ==
    \A a \in alive :
        LET T == Transcript(a)
        IN  /\ frame[a].pc = "return_error" =>
                  result[a].error \notin CapabilityFaults
            /\ \A p \in RequestsAt(T) : p < Len(T) =>
                  /\ AnsweredInOrder(T, p)
                  /\ \A i \in 1 .. Len(CallsOf(T[p])) :
                        LET call == CallsOf(T[p])[i]
                        IN  call.function.name \in config[a].tool_map =>
                              T[p + i].content =
                                  IF Outcome(call).raised
                                  THEN "{\"error\": \"" \o Outcome(call).value \o "\"}"
                                  ELSE Outcome(call).value
            /\ \A k \in 1 .. Len(frame[a].tool_calls_made) :
                  LET rec == frame[a].tool_calls_made[k]
                  IN  rec.error \in CapabilityFaults => rec.success = FALSE

\* C5 witness: a turn held a faulting and a succeeding invocation, both
\* were answered, and the run went on to its next backend call.
C5_Witness ==
    \E a \in alive :
        LET T == Transcript(a)
        IN  /\ frame[a].pc = "await_backend"
            /\ frame[a].iteration = 2
            /\ Len(T) = 5
            /\ T[4].content = "{\"error\": \"boom\"}"
            /\ T[5].content = "sunny"

\* C6: dispatching a name that is not in the registry yields
\* {success = false, error = "Unknown tool: <name>"} and never raises; in
\* run() such a request gets a tool message with that error and its record,
\* and the loop continues.
C6_UnknownToolContained ==
    \A a \in alive :
        LET T == Transcript(a)
        IN  /\ frame[a].pc = "return_error" =>
                  result[a].error \notin {"Unknown tool: ghost", "'ghost'"}
            /\ \A p \in RequestsAt(T) : p < Len(T) =>
                  /\ AnsweredInOrder(T, p)
                  /\ \A i \in 1 .. Len(CallsOf(T[p])) :
                        LET call == CallsOf(T[p])[i]
                        IN  call.function.name \notin config[a].tool_map =>
                              T[p + i].content =
                                  "{\"error\": \"Unknown tool: "
                                      \o call.function.name \o "\"}"
            /\ \A k \in 1 .. Len(frame[a].tool_calls_made) :
                  LET rec == frame[a].tool_calls_made[k]
                  IN  rec.tool \notin config[a].tool_map =>
                          /\ rec.success = FALSE
                          /\ rec.error = "Unknown tool: " \o rec.tool

\* C6 witness: an unregistered name was requested, its tool message was
\* appended, and the run went on to its next backend call.
C6_Witness ==
    \E a \in alive :
        LET T == Transcript(a)
        IN  /\ frame[a].pc = "await_backend"
            /\ frame[a].iteration = 2
            /\ Len(T) = 4
            /\ T[4].name = "ghost"
            /\ T[4].content = "{\"error\": \"Unknown tool: ghost\"}"
            /\ frame[a].tool_calls_made[1].success = FALSE

\* C7: when the backend call of turn k faults, run() ends in DONE_ERROR with
\* success = false and the fault's description as error; the result keeps
\* the transcript, the invocation records and the usage of turns 1..k-1, and
\* no assistant entry is appended for the failed call.
C7_BackendFaultKeepsState ==
    [][\A a \in alive :
          (frame[a].pc = "await_backend" /\ frame'[a].pc = "return_error") =>
              /\ result'[a].success = FALSE
              /\ result'[a].content = None
              /\ result'[a].error = BackendFault
              /\ Transcript(a)' = Transcript(a)
              /\ Entries(lists', dicts', result'[a].messages) = Transcript(a)
              /\ Cardinality(AssistantAt(Transcript(a)')) = frame[a].iteration - 1
              /\ result'[a].tool_calls = frame[a].tool_calls_made
              /\ Len(result'[a].tool_calls) = CallsIn(Transcript(a))
              /\ result'[a].usage = total_usage[a]
              /\ total_usage'[a] = total_usage[a]
              /\ result'[a].usage = reported_usage[a]]_vars

\* C7 witness: the backend call of the second turn faulted and the result
\* holds the first turn's assistant entry, tool messages, records and usage.
C7_Witness ==
    \E a \in alive :
        /\ frame[a].pc = "return_error"
        /\ result[a].error = BackendFault
        /\ frame[a].iteration = 2
        /\ Len(Entries(lists, dicts, result[a].messages)) = 5
        /\ Len(result[a].tool_calls) = 2
        /\ result[a].usage.total_tokens = 5

\* C8: provided every backend call and every invocation completes, every
\* run leaves RUNNING and reaches exactly one of DONE_SUCCESS, DONE_MAX_ITER
\* and DONE_ERROR, after at most max_iterations backend calls.
C8_Outcome ==
    \A a \in alive :
        /\ backend_calls[a] <= config[a].max_iterations
        /\ frame[a].pc \in Returned =>
              /\ result[a].returned
              /\ frame[a].pc = "return_success" <=> result[a].success
              /\ frame[a].pc = "return_max_iter" <=>
                     result[a].error = MaxIterError(config[a].max_iterations)
              /\ frame[a].pc = "return_error" <=>
                     result[a].error \in
                         {BackendFault, "'list' object has no attribute 'keys'"}

C8_RunTerminates ==
    /\ []C8_Outcome
    /\ (frame[Root].pc \in Running) ~> (frame[Root].pc \in Returned)

\* C8 witness: a run that used its whole budget of two backend calls has
\* returned.
C8_Witness ==
    \E a \in alive :
        /\ frame[a].pc \in Returned
        /\ config[a].max_iterations = 2
        /\ backend_calls[a] = 2


\* ------------------------------------------------------------------ forks
\* The dict objects the transcript of a refers to.
Objects(a) == Range(ListAt(lists, messages[a]))

\* The transcripts of a and b are different list objects and share no dict
\* object, so no append to one and no change inside an entry of one can be
\* seen through the other.
Independent(a, b) ==
    /\ messages[a] # messages[b]
    /\ Objects(a) \cap Objects(b) = {}

AllIndependent == \A a, b \in alive : a # b => Independent(a, b)

\* A step that changes the transcript of one agent leaves the transcript of
\* every other agent as it was.
OthersUnchanged ==
    LET changed == {a \in alive : Transcript(a)' # Transcript(a)}
    IN  \A a \in changed : changed \ {a} = {}

\* C9: after fork() the transcripts of the parent and of its forks are
\* structurally independent: after every step they share neither the list
\* nor an entry, and every step that changes one of them (an append to a fork, a run of a
\* fork, an append to or a run of the parent after the fork) leaves the
\* parent's and every sibling's transcript unchanged.
C9_ForkIndependent == [][OthersUnchanged /\ AllIndependent']_vars

\* C9 witness: two forks were taken of a parent holding at least three
\* entries and a message was appended to one of them; the sibling and the
\* parent still hold the entries they held at the fork.
C9_Witness ==
    \E f, g \in alive \ {Root} :
        LET K == history[f].K
        IN  /\ f # g
            /\ K >= 3
            /\ history[g].K = K
            /\ frame[f].pc = "idle"
            /\ frame[g].pc = "idle"
            /\ Len(Transcript(f)) = K + 1
            /\ Transcript(f)[K + 1] = [role |-> "user", content |-> FollowUp]
            /\ Len(Transcript(Root)) = K
            /\ Transcript(g) = Transcript(Root)
            /\ SubSeq(Transcript(f), 1, K) = Transcript(Root)

\* C10: whenever a fork taken at K entries has been run (and nothing else
\* was done to the fork or, since the fork, to the parent), the parent
\* holds K entries and the fork holds more than K.
C10_ForkRunGrows ==
    \A f \in alive :
        LET p == history[f].parent
        IN  (/\ p # 0
             /\ frame[f].pc \in Returned
             /\ history[f].api_calls = 1
             /\ history[p].api_calls = history[f].parent_calls)
                => /\ Len(Transcript(p)) = history[f].K
                   /\ Len(Transcript(f)) > history[f].K

\* C11: the agent fork() creates has the parent's model, temperature,
\* max_tokens, max_iterations, tool_choice, truncate_tool_results, provider
\* handle and tool registry, is named "<parent name>_fork", and its
\* transcript equals the parent's entry for entry at that moment.
C11_ForkCopiesParent ==
    [][\A f, p \in AgentIds :
          (f \in alive' \ alive /\ p = history'[f].parent) =>
          LET c == config'[f]
          IN  /\ p \in alive
              /\ c.model = config[p].model
              /\ c.temperature = config[p].temperature
              /\ c.max_tokens = config[p].max_tokens
              /\ c.max_iterations = config[p].max_iterations
              /\ c.tool_choice = config[p].tool_choice
              /\ c.truncate_tool_results = config[p].truncate_tool_results
              /\ c.provider = config[p].provider
              /\ c.tool_map = config[p].tool_map
              /\ c.name = config[p].name \o "_fork"
              /\ Transcript(f)' = Transcript(p)
              /\ Transcript(p)' = Transcript(p)]_vars

\* C11 witness: a fork of an agent that had run a turn with a tool call
\* exists, untouched since fork(), holding the parent's four entries.
C11_Witness ==
    \E f \in alive \ {Root} :
        /\ history[f].parent = Root
        /\ history[f].api_calls = 0
        /\ history[Root].api_calls = history[f].parent_calls
        /\ config[f].name = "Original_fork"
        /\ config[f].max_iterations = 1
        /\ Len(Transcript(f)) = 4
        /\ Transcript(f)[4].role = "tool"
        /\ Transcript(f) = Transcript(Root)

\* ------------------------------------------------------------------ usage
\* No counter of u is above its counterpart in v.
UsageLeq(u, v) ==
    /\ u.prompt_tokens <= v.prompt_tokens
    /\ u.completion_tokens <= v.completion_tokens
    /\ u.total_tokens <= v.total_tokens

\* C16: the accumulator of an agent always holds, counter by counter, the
\* sum of the usage the backend reported over all the calls the agent made
\* since its construction: no step lowers a counter (run and reset leave
\* them alone), and the usage a run returns is that sum.
C16_UsageAccumulates ==
    [][\A a \in AgentIds :
          a \in alive =>
             /\ total_usage'[a] = reported_usage'[a]
             /\ UsageLeq(total_usage[a], total_usage'[a])
             /\ (result'[a] # result[a]
                    => result'[a].usage = reported_usage'[a])]_vars

\* C16 witness: an agent ran, was reset and ran again, each run making one
\* backend call that reported its usage; the second run returned the sum.
C16_Witness ==
    /\ history[Root].api_calls = 3
    /\ Len(lists[Root]) = 4
    /\ lists[Root][3] = <<>>
    /\ frame[Root].pc = "return_success"
    /\ result[Root].iterations = 1
    /\ result[Root].usage.prompt_tokens = 2 * ReportedUsage.prompt_tokens
    /\ result[Root].usage.completion_tokens = 2 * ReportedUsage.completion_tokens
    /\ result[Root].usage.total_tokens = 2 * ReportedUsage.total_tokens

\* ------------------------------------------------------------------ seeds
\* The two entries run(task) seeds the transcript with.
Seeds(a, task) ==
    <<[role |-> "system", content |-> config[instance[a]].system_message],
      [role |-> "user", content |-> task]>>

\* The run of a waits for its first backend call.
AtFirstCall(a) == frame[a].pc = "await_backend" /\ frame[a].iteration = 1

\* The run of a returns in this step without having made a backend call.
ReturnsWithoutCall(a) == result'[a] # result[a] /\ frame'[a].iteration = 0

C19_SystemFirst ==
    \A a \in alive :
        Len(Transcript(a)) > 0
            => Transcript(a)[1] = [role |-> "system",
                                   content |-> config[a].system_message]

\* ----------------------------------------------------- calls and answers
\* The ids of the ToolCalls an entry carries.
IdsOf(m) == {CallsOf(m)[i].id : i \in 1 .. Len(CallsOf(m))}

\* The entry at p, which carries n ToolCalls, is followed by exactly n tool
\* messages, one for each of its ids.
AnsweredOnce(T, p) ==
    LET n == Len(CallsOf(T[p]))
    IN  /\ p + n <= Len(T)
        /\ \A i \in 1 .. n : T[p + i].role = "tool"
        /\ {T[p + i].tool_call_id : i \in 1 .. n} = IdsOf(T[p])
        /\ Cardinality(IdsOf(T[p])) = n
        /\ p + n < Len(T) => T[p + n + 1].role # "tool"

\* The position of the last entry before p that is no tool message.
Asker(T, p) ==
    CHOOSE q \in 0 .. p - 1 :
        /\ q > 0 => T[q].role # "tool"
        /\ \A r \in q + 1 .. p - 1 : T[r].role = "tool"

\* The tool message at p answers a call of the assistant entry before it.
Asked(T, p) ==
    LET q == Asker(T, p)
    IN  /\ q > 0
        /\ T[q].role = "assistant"
        /\ T[p].tool_call_id \in IdsOf(T[q])

\* C20: while a backend call of a run is in progress, every assistant entry
\* of the transcript that carries ToolCalls is followed at once by exactly
\* one tool message per ToolCall, and every tool message refers to an id
\* of the assistant entry that precedes its block.
C20_CallsAnswered ==
    \A a \in alive :
        frame[a].pc = "await_backend" =>
            LET T == Transcript(a)
            IN  \A p \in 1 .. Len(T) :
                   /\ (T[p].role = "assistant" /\ CallsOf(T[p]) # <<>>)
                         => AnsweredOnce(T, p)
                   /\ T[p].role = "tool" => Asked(T, p)

\* C20 witness: the second backend call of a run is in progress after a
\* turn that requested two calls, one of which failed.
C20_Witness ==
    \E a \in alive :
        LET T == Transcript(a)
        IN  /\ frame[a].pc = "await_backend"
            /\ frame[a].iteration = 2
            /\ Len(T) = 5
            /\ Len(CallsOf(T[3])) = 2
            /\ T[4].content = "sunny"
            /\ T[5].content = json_dumps_error("boom")

\* ------------------------------------------------------ runs side by side
\* The number of assistant entries among the first p entries of T.
RECURSIVE TurnOf(_, _)
TurnOf(T, p) ==
    IF p = 0 THEN 0
    ELSE TurnOf(T, p - 1) + (IF T[p].role = "assistant" THEN 1 ELSE 0)

\* The ToolCalls of the assistant entry at p carry the ids of the run's
\* turn of that number.
OwnTurn(T, p) ==
    \A i \in 1 .. Len(CallsOf(T[p])) :
        CallsOf(T[p])[i].id = ToolCall(TurnOf(T, p), i, None, None).id

\* The list object ref holds objects that the methods of a created one
\* after the other, and nothing else.
OwnObjects(a, ref) ==
    LET L == ListAt(lists, ref)
    IN  \A i \in 1 .. Len(L) :
           /\ L[i][1] = a
           /\ L[i][2] = L[1][2] + i - 1

Served(fr, i) == i \in DOMAIN fr.results /\ "fork" \in DOMAIN fr.results[i]

\* The invocations of the turn of c whose wrapper has returned.
Delegated(c) ==
    {i \in DOMAIN frame[c].results :
        Served(frame[c], i) /\ "tool_call" \in DOMAIN frame[c].results[i]}

\* C12: once the calling agent runs, no step changes the wrapped agent's
\* transcript (neither the list it refers to nor its entries), however
\* many invocations of the wrapper begin, run side by side and finish; and
\* the agent that serves an invocation is created by the step that begins
\* the invocation, so no two invocations are served by the same agent.
C12_DelegateLeavesAgent ==
    [][/\ frame[Coordinator].pc # "idle"
          => /\ messages'[Root] = messages[Root]
             /\ Transcript(Root)' = Transcript(Root)
       /\ \A c \in DelegateIds :
             \A i \in 1 .. Len(frame[c].calls) :
                (Served(frame'[c], i) /\ ~Served(frame[c], i))
                    => /\ frame'[c].results[i].fork \notin alive
                       /\ frame'[c].results[i].fork \in alive']_vars

\* C12 witness: the wrapped agent ran before and holds three entries; the
\* calling agent's turn requested two delegations, which were served by
\* two forks side by side, and both have returned.
C12_Witness ==
    /\ Len(Transcript(Root)) = 3
    /\ frame[Coordinator].pc = "await_gather"
    /\ Delegated(Coordinator) = {1, 2}
    /\ frame[Coordinator].results[1].fork # frame[Coordinator].results[2].fork
    /\ \A i \in {1, 2} :
          Len(Transcript(frame[Coordinator].results[i].fork)) >= 3

\* The number of user entries among the first p entries of T.
RECURSIVE UserEntries(_, _)
UserEntries(T, p) ==
    IF p = 0 THEN 0
    ELSE UserEntries(T, p - 1) + (IF T[p].role = "user" THEN 1 ELSE 0)

\* The task a ToolCall delegates.
TaskOf(tool_call) == json_loads(tool_call.function.arguments).values[1]

\* What a wrapper has to return for the response of its fork's run.
Tagged(response, agent_name) ==
    [status |-> IF response.success THEN "success" ELSE "error",
     payload |-> IF response.success THEN response.content ELSE response.error,
     agent |-> agent_name]

\* The dict a wrapper returned, with its result or error under one key.
AsTagged(d) ==
    [status |-> d.status,
     payload |-> IF "result" \in DOMAIN d THEN d.result ELSE d.error,
     agent |-> d.agent]

\* C13: an invocation of a wrapper that has returned was served by a fork
\* whose run had the delegated task as its only user message, and it
\* returned {status success, result: the content of the fork's run, agent:
\* the wrapped agent's name} if that run succeeded and {status error,
\* error: the run's error, agent: the wrapped agent's name} if it did not;
\* the tool message of the invocation carries that dict.
C13_TaggedOutcome ==
    \A c \in alive :
        \A i \in Delegated(c) :
            LET r == frame[c].results[i]
                f == r.fork
                d == r.result.result
                T == Transcript(f)
                Tc == Transcript(c)
            IN  /\ frame[f].pc \in Returned
                /\ SubSeq(T, 1, 2) = Seeds(f, TaskOf(r.tool_call))
                /\ UserEntries(T, Len(T)) = 1
                /\ r.result.success
                /\ AsTagged(d) = Tagged(result[f], config[history[f].parent].name)
                /\ d.status = "success" <=> "result" \in DOMAIN d
                /\ d.status = "error" <=> "error" \in DOMAIN d
                /\ frame[c].pc # "await_gather"
                      => \E p \in 1 .. Len(Tc) :
                            /\ Tc[p].role = "tool"
                            /\ Tc[p].tool_call_id = r.tool_call.id
                            /\ Tc[p].content = json_dumps_indent(d)

\* C13 witness: of two delegations of one turn, one returned a success and
\* the other an error, and the turn's tool messages have been appended.
C13_Witness ==
    /\ frame[Coordinator].pc \in {"await_backend", "return_max_iter"}
    /\ Delegated(Coordinator) = {1, 2}
    /\ frame[Coordinator].results[1].result.result.status = "success"
    /\ frame[Coordinator].results[1].result.result.result = "It is sunny."
    /\ frame[Coordinator].results[2].result.result.status = "error"
    /\ frame[Coordinator].results[2].result.result.agent = "Original"

\* C17: a step changes the accumulator of at most one agent, and only of
\* the agent whose own backend call returns in that step; an agent created
\* by fork(), also inside a delegation, starts with all counters at zero.
C17_UsageNotShared ==
    [][LET changed == {a \in DelegateIds : total_usage'[a] # total_usage[a]}
       IN  /\ \A a \in changed :
                 /\ changed = {a}
                 /\ frame[a].pc = "await_backend"
                 /\ frame'[a].pc # "await_backend"
           /\ \A f \in AgentIds :
                 (f \in alive' /\ f \notin alive)
                    => total_usage'[f] = [prompt_tokens |-> 0,
                                          completion_tokens |-> 0,
                                          total_tokens |-> 0]]_vars

\* C17 witness: the wrapped agent and the calling agent have each been
\* charged for one backend call; of the two forks serving delegations one
\* has been charged for its own call and the other for none.
C17_Witness ==
    /\ total_usage[Root] = ReportedUsage
    /\ total_usage[Coordinator] = ReportedUsage
    /\ \E f, g \in alive \ {Root, Coordinator} :
          /\ history[f].parent = Root
          /\ history[g].parent = Root
          /\ total_usage[f] = ReportedUsage
          /\ frame[f].pc \in Returned
          /\ total_usage[g] = [prompt_tokens |-> 0, completion_tokens |-> 0,
                               total_tokens |-> 0]
          /\ frame[g].pc = "await_backend"

\* ------------------------------------------------- two callers, one agent
\* The invocation of a is in progress and that of b begins in this step.
BeginsDuring(b, a) ==
    /\ frame[a].pc \in Running
    /\ frame[b].pc = "idle"
    /\ frame'[b].pc # "idle"

\* C15: two invocations of run() on one Agent object are not isolated.
\* Every message either of them produces is appended to the one list
\* self.messages refers to at that moment, and that list is what either of
\* them returns; and when an invocation begins while the other is in
\* progress, the transcript the other goes on to use is the two seeds of
\* the new one, with nothing left of its own history.
C15_OverlapShares ==
    [][\A a \in Callers :
          /\ \A j \in 1 .. Len(dicts'[a]) :
                j > Len(dicts[a])
                    => <<a, j>> \in Range(ListAt(lists', messages'[Root]))
          /\ result'[a] # result[a] => result'[a].messages = messages'[Root]
          /\ \A b \in Callers \ {a} :
                BeginsDuring(b, a)
                    => Transcript(a)' = Seeds(b, TaskOfCaller(b))]_vars

\* C15 witness: the invocation that began first has returned a transcript
\* that opens with the seeds of the other invocation and holds the other's
\* assistant message before its own.
C15_Witness ==
    /\ frame[Root].pc = "return_success"
    /\ frame[Second].pc = "return_success"
    /\ result[Root].messages = <<Second, 1>>
    /\ ListAt(lists, result[Root].messages)
          = <<<<Second, 1>>, <<Second, 2>>, <<Second, 3>>, <<Root, 3>>>>
    /\ Entries(lists, dicts, result[Root].messages)[2]
          = [role |-> "user", content |-> FollowUp]
    /\ Entries(lists, dicts, result[Root].messages)[3].role = "assistant"

\* ------------------------------------------------------------ truncation
\* The tool messages of a's transcript that answer a report tool.
ReportMessages(a) ==
    {e \in Range(Transcript(a)) : e.role = "tool" /\ e.name \in ReportTools}

\* What format_tool_result starts from for the result of report tool n.
FormattedReport(n) ==
    IF n \in DictTools THEN "{\n  \"articles\": \"" \o ReportOf(n) \o "\"\n}"
    ELSE ReportOf(n)

Marker(original, shown) ==
    "\n\n... [TRUNCATED - Original length: " \o ToString(original)
        \o " chars, showing first " \o ToString(shown) \o " chars]"

\* C21: with truncation enabled, a result whose formatted length exceeds
\* the threshold is cut to exactly its first 50,000 characters followed by
\* the marker that states the original and the shown length, and a result
\* of at most the threshold is kept whole; with truncation disabled the
\* full result is kept whatever its length.
C21_Truncation ==
    \A a \in alive : \A e \in ReportMessages(a) :
        LET full == FormattedReport(e.name)
        IN  IF config[a].truncate_tool_results /\ Len(full) > TruncateAt
            THEN /\ SubSeq(e.content, 1, TruncateAt)
                        = SubSeq(full, 1, TruncateAt)
                 /\ SubSeq(e.content, TruncateAt + 1, Len(e.content))
                        = Marker(Len(full), TruncateAt)
            ELSE e.content = full

\* C21 witness: an agent that truncates has answered long_report (cut),
\* fetch_articles (cut, its JSON form being longer than the threshold) and
\* exact_report (whole).
C21_Witness ==
    /\ config[Root].truncate_tool_results
    /\ {e.name : e \in ReportMessages(Root)} = ReportTools
    /\ \E e \in ReportMessages(Root) :
          e.name = "long_report" /\ Len(e.content) > TruncateAt + 1
    /\ \E e \in ReportMessages(Root) :
          e.name = "exact_report" /\ Len(e.content) = TruncateAt

\* C21 witness, truncation disabled: the result of long_report is whole.
C21_WitnessDisabled ==
    /\ ~config[Root].truncate_tool_results
    /\ \E e \in ReportMessages(Root) :
          e.name = "long_report" /\ Len(e.content) = TruncateAt + 1

\* ------------------------------------------------------ derived contracts
\* The tools of a constructed agent whose derivation faults, and the rest.
Faulty(a) == {i \in DOMAIN config[a].tools : config[a].tools[i].fault # None}

SchemaNames(a) ==
    {config[a].tool_schemas[i].function.name :
        i \in DOMAIN config[a].tool_schemas}

\* C22: when the derivation of one tool's contract faults during
\* construction, the agent is constructed all the same, that tool is in
\* neither tool_schemas nor tool_map, and every other tool is in both: one
\* schema per tool that derives, in the order of the tools.
C22_FaultyToolDropped ==
    \A a \in alive :
        LET tools == config[a].tools
            sound == SelectSeq(tools, LAMBDA t : t.fault = None)
        IN  /\ \A i \in Faulty(a) :
                  /\ tools[i].__name__ \notin config[a].tool_map
                  /\ tools[i].__name__ \notin SchemaNames(a)
            /\ \A i \in DOMAIN tools \ Faulty(a) :
                  /\ tools[i].__name__ \in config[a].tool_map
                  /\ tools[i].__name__ \in SchemaNames(a)
            /\ Len(config[a].tool_schemas) = Len(sound)
            /\ \A j \in DOMAIN sound :
                  config[a].tool_schemas[j].function.name = sound[j].__name__

\* C22 witness: an agent constructed with a tool that derives and one whose
\* derivation faults.
C22_Witness ==
    /\ Root \in alive
    /\ config[Root].tools = <<bad_hints, simple_tool>>
    /\ config[Root].tool_map = {"simple_tool"}
    /\ Len(config[Root].tool_schemas) = 1

\* The contracts in being: the one a caller derived, and those of the
\* constructed agents, each with the callable it was derived from.
AgentDerived(a) ==
    LET sound == SelectSeq(config[a].tools, LAMBDA t : t.fault = None)
    IN  {[func |-> sound[j], schema |-> config[a].tool_schemas[j]] :
            j \in DOMAIN sound \cap DOMAIN config[a].tool_schemas}

Derived ==
    (IF contract.made /\ ~contract.outcome.raised
     THEN {[func |-> contract.func, schema |-> contract.outcome.schema]}
     ELSE {})
    \cup UNION {AgentDerived(a) : a \in alive}

NamesWithoutDefault(params) ==
    LET bare == SelectSeq(params, LAMBDA q : ~q.has_default)
    IN  [i \in DOMAIN bare |-> bare[i].name]

\* C23 as stated: the required set is exactly the parameters declared
\* without a default value, in declared order.
C23_RequiredAsDeclared ==
    \A d \in Derived :
        d.schema.function.parameters.required
            = NamesWithoutDefault(d.func.params)

\* C23, amended: the required set is exactly the parameters declared
\* without a default value, other than a parameter named self or cls, in
\* declared order; it is empty when every parameter has a default, and a
\* parameter with a default is never in it.
C23_RequiredSet ==
    \A d \in Derived :
        LET required == d.schema.function.parameters.required
            params == d.func.params
        IN  /\ required = NamesWithoutDefault(
                    SelectSeq(params, LAMBDA q : q.name \notin {"self", "cls"}))
            /\ (\A i \in DOMAIN params : params[i].has_default)
                    => required = <<>>
            /\ \A i \in DOMAIN params :
                    params[i].has_default => params[i].name \notin Range(required)

\* C23 witness: the contract of lookup(self, query, flag=False) requires
\* query alone.
C23_Witness ==
    /\ contract.made
    /\ contract.func = lookup
    /\ ~contract.outcome.raised
    /\ contract.outcome.schema.function.parameters.required = <<"query">>

RECURSIVE ParseContinuing(_, _, _)
ParseContinuing(lines, i, st) ==
    IF i > Len(lines) THEN st.param_docs
    ELSE LET stripped == strip(lines[i])
         IN  IF lower(stripped) \in {"args:", "arguments:", "parameters:"}
             THEN ParseContinuing(lines, i + 1,
                                  [st EXCEPT !.in_args_section = TRUE])
             ELSE IF ~st.in_args_section
             THEN ParseContinuing(lines, i + 1, st)
             ELSE IF /\ stripped # ""
                     /\ ~startswith(lines[i], " ")
                     /\ find(stripped, ":") = 0
             THEN st.param_docs
             ELSE IF find(stripped, ":") # 0
             THEN LET parts == split1(stripped, ":")
                      param_name == strip(parts[1])
                  IN  ParseContinuing(lines, i + 1,
                         [st EXCEPT !.param_docs =
                                        Put(@, param_name, strip(parts[2])),
                                    !.current_param = param_name])
             ELSE IF st.current_param # None /\ stripped # ""
             THEN ParseContinuing(lines, i + 1,
                     [st EXCEPT !.param_docs =
                         Put(@, st.current_param,
                             Get(@, st.current_param) \o " " \o stripped)])
             ELSE ParseContinuing(lines, i + 1, st)

\* C30: every indented continuation line is appended, space-joined, to the
\* open parameter's description, and the section ends only at a
\* non-indented line without a colon: the descriptions of the derived
\* contract are those the rule gives.
C30_ContinuationsJoined ==
    \A d \in Derived :
        LET stated == ParseContinuing(
                          split(IF d.func.doc = None THEN "" ELSE d.func.doc,
                                "\n"), 1,
                          [param_docs |-> <<>>, in_args_section |-> FALSE,
                           current_param |-> None])
            properties == d.schema.function.parameters.properties
        IN  \A i \in DOMAIN properties :
                LET param_schema == properties[i][2]
                IN  IF properties[i][1] \in Keys(stated)
                    THEN /\ "description" \in DOMAIN param_schema
                         /\ param_schema.description
                                = Get(stated, properties[i][1])
                    ELSE "description" \notin DOMAIN param_schema

\* ----------------------------------------------------- the turn's barrier
\* The invocations of a's current turn that have not completed.
Pending(a) ==
    {i \in 1 .. Len(frame[a].calls) : i \notin Range(frame[a].finished)}

\* The ids of the ToolCalls of a's current turn.
TurnIds(a) == {frame[a].calls[i].id : i \in 1 .. Len(frame[a].calls)}

\* The ids the tool messages of a's transcript answer.
AnsweredIds(a) ==
    {e.tool_call_id : e \in {m \in Range(Transcript(a)) : m.role = "tool"}}

\* C28: within a turn of run(), no tool message of the turn is appended and
\* the next backend call is not issued until all the turn's invocations
\* have completed; a backend call is never in progress while an invocation
\* is, so the invocations of different turns do not overlap.
C28_TurnBarrier ==
    [][\A a \in AgentIds :
          a \in alive =>
            /\ (AnsweredIds(a)' \cap TurnIds(a) # {}
                    \/ backend_calls'[a] > backend_calls[a])
                  => Pending(a) = {}
            /\ frame'[a].pc = "await_gather"
                  => /\ AnsweredIds(a)' \cap TurnIds(a)' = {}
                     /\ backend_calls'[a] = frame'[a].iteration
            /\ frame'[a].pc = "await_backend" => Pending(a)' = {}]_vars

\* C28 witness: in the second turn one of two invocations has completed,
\* the other has not, and the transcript holds the tool messages of the
\* first turn only.
C28_Witness ==
    \E a \in alive :
        /\ frame[a].pc = "await_gather"
        /\ frame[a].iteration = 2
        /\ Len(frame[a].calls) = 2
        /\ Cardinality(Pending(a)) = 1
        /\ AnsweredIds(a) # {}
        /\ AnsweredIds(a) \cap TurnIds(a) = {}

\* C29: when the backend returns the stop finish reason together with
\* capability calls, run() ends in DONE_SUCCESS without dispatching them:
\* no invocation is started, no invocation record and no tool message is
\* added for them, and the returned transcript ends with the assistant
\* entry that carries the unanswered calls.
C29_StopWithCallsNotDispatched ==
    \A a \in alive :
        LET fr == frame[a]
            r == result[a]
            T == Entries(lists, dicts, r.messages)
            ids == {fr.message.tool_calls[i].id :
                       i \in 1 .. Len(fr.message.tool_calls)}
        IN  (fr.finish_reason = "stop" /\ fr.message.tool_calls # <<>>) =>
                /\ fr.pc = "return_success"
                /\ fr.calls = <<>>
                /\ r.returned /\ r.success
                /\ Len(r.tool_calls) = Cardinality(AnsweredIds(a))
                /\ AnsweredIds(a) \cap ids = {}
                /\ T[Len(T)].role = "assistant"
                /\ "tool_calls" \in DOMAIN T[Len(T)]
                /\ IdsOf(T[Len(T)]) = ids

\* C29 witness: after a turn that dispatched two invocations, the second
\* response is a stop that carries a call; the run has returned with the
\* two records of the first turn.
C29_Witness ==
    \E a \in alive :
        /\ frame[a].pc = "return_success"
        /\ frame[a].iteration = 2
        /\ frame[a].finish_reason = "stop"
        /\ Len(frame[a].message.tool_calls) = 1
        /\ Len(result[a].tool_calls) = 2

\* The required arguments of a capability as declared, those of them a turn
\* leaves missing, and whether args holds exactly the names in keys.
DeclaredRequired(tool_name) ==
    CASE tool_name = "set_reminder" -> <<"task", "time">>
      [] tool_name = "vector_search" -> <<"query">>

StillMissing(c) ==
    SelectSeq(DeclaredRequired(c.tool), LAMBDA q : q \notin c.met.keys)

Holds(args, keys) ==
    /\ Len(args) = Cardinality(keys)
    /\ {args[i] : i \in DOMAIN args} = {<<k, ValueOf(k)>> : k \in keys}

Invoked(c) == IF c.turns = 0 THEN <<>> ELSE c.invoked

\* C25: after every turn the collector has asked for no argument that the
\* session held or the turn supplied, and for at most one argument.  After
\* a turn whose request still lacks a required argument, the session of the
\* requested capability holds every argument supplied for it so far and
\* the one argument asked for is the first required one, in declared order,
\* that it does not hold.
C25_AsksFirstMissing ==
    collector.turns > 0 =>
        /\ Len(collector.asked) <= 1
        /\ \A i \in DOMAIN collector.asked :
               collector.asked[i] \notin collector.met.keys
        /\ StillMissing(collector) # <<>> =>
              /\ memory.parameter_store.tool_name = collector.tool
              /\ Holds(get_collected_params(memory, collector.tool),
                       collector.met.keys)
              /\ collector.asked = <<StillMissing(collector)[1]>>

\* Turn 2 of the reminder scenario: task was supplied, time is asked for.
C25_Witness ==
    /\ collector.turns = 2
    /\ collector.tool = "set_reminder"
    /\ collector.supplied = <<<<"task", PyStr("buy milk")>>>>
    /\ collector.asked = <<"time">>
    /\ collector.invoked = <<>>
    /\ get_collected_params(memory, "set_reminder")
           = <<<<"task", PyStr("buy milk")>>>>

\* C26: a turn after which no required argument is missing invokes the
\* capability once, with the session's arguments merged with the turn's, and
\* leaves no session, no collected arguments and no fact named after the
\* capability; a turn that still lacks one invokes nothing.
C26_InvokedOnceThenIdle ==
    [][collector'.turns = collector.turns + 1 =>
        IF StillMissing(collector') = <<>>
        THEN /\ Len(collector'.invoked) = Len(Invoked(collector)) + 1
             /\ SubSeq(collector'.invoked, 1, Len(Invoked(collector)))
                    = Invoked(collector)
             /\ collector'.invoked[Len(collector'.invoked)].tool
                    = collector'.tool
             /\ Holds(collector'.invoked[Len(collector'.invoked)].arguments,
                      collector'.met.keys)
             /\ memory'.parameter_store = NoStore
             /\ \A func \in CollectorTools :
                    get_collected_params(memory', func.__name__) = <<>>
             /\ \A i \in 1 .. Len(memory'.facts) :
                    /\ ~startswith(memory'.facts[i][1], collector'.tool)
                    /\ memory'.facts[i][1] # "current_tool"
        ELSE collector'.invoked = Invoked(collector)]_vars

\* Turn 3 of the reminder scenario: time arrives, the reminder is set once.
C26_Witness ==
    /\ collector.turns = 3
    /\ collector.supplied = <<<<"time", PyStr("5pm")>>>>
    /\ collector.asked = <<>>
    /\ collector.invoked =
          <<[tool |-> "set_reminder",
             arguments |-> <<<<"task", PyStr("buy milk")>>,
                             <<"time", PyStr("5pm")>>>>]>>
    /\ memory.parameter_store = NoStore
    /\ memory.facts = <<>>

\* C27: a Memory holds collected arguments for at most one tool.  add_param
\* for a tool other than the one being collected leaves a store for the new
\* tool with that one argument only, and nothing is returned for the old
\* tool any more; clear_collected_params for a tool that is not the one
\* being collected changes neither the store nor the facts.
Collecting(m) == m.parameter_store # NoStore

C27_OneSession ==
    /\ [](\A f \in CollectorTools : \A g \in CollectorTools :
             (get_collected_params(memory, f.__name__) # <<>>
              /\ get_collected_params(memory, g.__name__) # <<>>) => f = g)
    /\ [][(Collecting(memory)
           /\ memory'.call.tool_name # memory.parameter_store.tool_name) =>
            /\ memory'.call.op = "add_param" =>
                 /\ memory'.parameter_store =
                       [tool_name |-> memory'.call.tool_name,
                        parameters |-> <<<<memory'.call.param_name,
                                           memory'.call.value>>>>]
                 /\ get_collected_params(memory',
                        memory.parameter_store.tool_name) = <<>>
            /\ memory'.call.op = "clear_collected_params" =>
                 /\ memory'.parameter_store = memory.parameter_store
                 /\ memory'.facts = memory.facts
            /\ memory'.call.op = "get_collected_params" =>
                 memory'.call.ret = <<>>]_vars

\* set_reminder's task was collected, then vector_search's limit was stored,
\* then set_reminder was cleared: the store is vector_search's.
C27_Witness ==
    /\ memory.call.op = "clear_collected_params"
    /\ memory.call.tool_name = "set_reminder"
    /\ memory.parameter_store =
          [tool_name |-> "vector_search",
           parameters |-> <<<<"limit", PyInt(5)>>>>]
    /\ get_fact(memory, "set_reminder_task") = "buy milk"
    /\ get_collected_params(memory, "set_reminder") = <<>>

\* The key under which add_param notes an argument of a capability.
NoteKey(tool_name) == tool_name \o "_" \o NoteParam(tool_name)

\* C31: clear_collected_params for a capability leaves every fact in place,
\* with its value, other than the notes of that capability's own arguments
\* and current_tool.
C31_ClearTouchesOnlyOwn ==
    [][memory'.call.op = "clear_collected_params" =>
        \A i \in DOMAIN memory.facts :
            (/\ memory.facts[i][1] # NoteKey(memory'.call.tool_name)
             /\ memory.facts[i][1] # "current_tool") =>
                get_fact(memory', memory.facts[i][1]) = memory.facts[i][2]]_vars

\* C32: the note of an argument of a capability that is not the one being
\* collected is returned by get_fact, is a line of the context, and is still
\* in the facts after any clear_collected_params.
C32_StaleNotesStay ==
    [][\A tool_name \in NoteTools :
        (/\ NoteKey(tool_name) \in Keys(memory.facts)
         /\ memory.parameter_store.tool_name # tool_name) =>
            /\ get_fact(memory, NoteKey(tool_name))
                   = str(ValueOf(NoteParam(tool_name)))
            /\ \E i \in DOMAIN FactLines(memory) :
                   FactLines(memory)[i] = "- " \o NoteKey(tool_name) \o ": "
                       \o str(ValueOf(NoteParam(tool_name)))
            /\ memory'.call.op = "clear_collected_params" =>
                   get_fact(memory', NoteKey(tool_name))
                       = get_fact(memory, NoteKey(tool_name))]_vars

Unparseable(a) ==
    {i \in 1 .. Len(frame[a].calls) :
        ~json_loads(frame[a].calls[i].function.arguments).ok}

NotAMap(a) ==
    {i \in 1 .. Len(frame[a].calls) :
        LET parsed == json_loads(frame[a].calls[i].function.arguments)
        IN  parsed.ok /\ parsed.type # "dict"}

EmptyMap == [type |-> "dict", keys |-> <<>>]

\* C34: the coroutine of a call with an unparseable payload does not raise:
\* it finishes with an empty argument map and the result execute_tool gives
\* for the empty map; at the turn's fan-in the call gets a record with empty
\* arguments and a tool message, and the run is at its loop head, awaiting
\* the next backend call if iterations are left.
C34_UnparseableIsEmptyMap ==
    [][\A a \in AgentIds :
        (a \in alive /\ frame[a].pc = "await_gather") =>
        \A i \in Unparseable(a) :
            LET call == frame[a].calls[i]
                tool_map == config[instance[a]].tool_map
                res == execute_tool(call.function.name, EmptyMap, tool_map)
            IN  /\ ~execute_single_tool(call, tool_map).raised
                /\ (i \in Range(frame'[a].finished)
                        /\ i \notin Range(frame[a].finished)) =>
                      /\ frame'[a].results[i].tool_args = EmptyMap
                      /\ frame'[a].results[i].result =
                            [success |-> res.success, result |-> res.result,
                             error |-> res.error]
                /\ frame'[a].pc \notin {"await_gather", "return_error"} =>
                      LET made == frame'[a].tool_calls_made
                                  [Len(frame[a].tool_calls_made) + i]
                          msg == Transcript(a)'[Len(Transcript(a)) + i]
                      IN  /\ made.tool = call.function.name
                          /\ made.arguments = EmptyMap
                          /\ msg.role = "tool"
                          /\ msg.tool_call_id = call.id
                          /\ frame'[a].pc =
                                IF frame[a].iteration
                                       < config[instance[a]].max_iterations
                                THEN "await_backend"
                                ELSE "return_max_iter"]_vars

\* C34 witness: the first turn's only call had an unparseable payload; it
\* is recorded with empty arguments and answered by a tool message, and the
\* second backend call of the run is in progress.
C34_Witness ==
    \E a \in alive :
        /\ frame[a].pc = "await_backend"
        /\ frame[a].iteration = 2
        /\ Len(Transcript(a)) = 4
        /\ Transcript(a)[3].tool_calls[1].function.arguments = ArgsUnparseable
        /\ Transcript(a)[4].role = "tool"
        /\ frame[a].tool_calls_made =
              <<[tool |-> "get_weather", arguments |-> EmptyMap,
                 success |-> FALSE,
                 error |-> "get_weather() missing 1 required positional argument: 'city'"]>>

\* C35: a turn holding a call whose payload parses to something that is not
\* a map leaves its fan-out only into DONE_ERROR; the result then returned
\* fails with the fault's text, its transcript ends with the turn's
\* assistant entry, no tool message answers a call of the turn, and it
\* holds the records of the earlier turns only, one for each tool message.
C35_FaultOutsideDispatcher ==
    [][\A a \in AgentIds :
        (/\ a \in alive
         /\ frame[a].pc = "await_gather"
         /\ NotAMap(a) # {}
         /\ frame'[a].pc # "await_gather") =>
            LET T == Entries(lists', dicts', result'[a].messages)
            IN  /\ frame'[a].pc = "return_error"
                /\ result'[a].returned
                /\ ~result'[a].success
                /\ result'[a].error = "'list' object has no attribute 'keys'"
                /\ T[Len(T)].role = "assistant"
                /\ {T[Len(T)].tool_calls[k].id :
                       k \in DOMAIN T[Len(T)].tool_calls} = TurnIds(a)
                /\ \A p \in DOMAIN T :
                      T[p].role = "tool" => T[p].tool_call_id \notin TurnIds(a)
                /\ result'[a].tool_calls = frame[a].tool_calls_made
                /\ Len(result'[a].tool_calls)
                      = Cardinality({p \in DOMAIN T : T[p].role = "tool"})]_vars

\* C35 witness: in the second turn the first of two calls executed and the
\* second, whose payload is a list, faulted: the run returned its error with
\* the first turn's record and tool message only.
C35_Witness ==
    \E a \in alive :
        /\ frame[a].pc = "return_error"
        /\ frame[a].iteration = 2
        /\ Len(frame[a].calls) = 2
        /\ frame[a].finished = <<1>>
        /\ NotAMap(a) = {2}
        /\ Len(result[a].tool_calls) = 1
        /\ Len(Entries(lists, dicts, result[a].messages)) = 5
        /\ Entries(lists, dicts, result[a].messages)[5].role = "assistant"

\* C36: no step changes the entries of the transcript carried by a result
\* that run() has returned: neither the list the result refers to nor the
\* entries in it.
C36_ReturnedTranscriptFrozen ==
    [][\A a \in AgentIds :
        (a \in alive /\ result[a].returned) =>
            Entries(lists', dicts', result[a].messages)
                = Entries(lists, dicts, result[a].messages)]_vars

\* The ToolCalls requested by the assistant entries among the first p
\* entries of a transcript, in order.
RECURSIVE RequestedUpTo(_, _)
RequestedUpTo(T, p) ==
    IF p = 0 THEN <<>>
    ELSE RequestedUpTo(T, p - 1)
            \o (IF T[p].role = "assistant" THEN CallsOf(T[p]) ELSE <<>>)

\* The invocation records of the run of a: those of the run in progress, or
\* those the returned result carries.
RecordsOf(a) ==
    IF frame[a].pc \in Returned THEN result[a].tool_calls
    ELSE frame[a].tool_calls_made

\* C37: while a backend call is in progress and once a run has ended in
\* DONE_SUCCESS or DONE_MAX_ITER, there are as many invocation records as
\* tool messages in the transcript, the i-th record names the capability the
\* i-th tool message names, and both follow the ToolCalls requested by the
\* earlier assistant entries, turn after turn, in request order.
C37_RecordsMatchToolMessages ==
    \A a \in alive :
        frame[a].pc \in {"await_backend", "return_success", "return_max_iter"} =>
            LET T == Transcript(a)
                tools == ToolMessages(T)
                made == RecordsOf(a)
                asked == RequestedUpTo(T, Len(T) - 1)
            IN  /\ Len(made) = Len(tools)
                /\ Len(asked) = Len(tools)
                /\ \A i \in 1 .. Len(made) :
                      /\ made[i].tool = tools[i].name
                      /\ made[i].tool = asked[i].function.name
                      /\ tools[i].tool_call_id = asked[i].id

\* C37 witness: a run ended out of iterations after two turns, the second
\* of two calls of which the first failed: three records, three tool
\* messages.
C37_Witness ==
    \E a \in alive :
        /\ frame[a].pc = "return_max_iter"
        /\ frame[a].iteration = 2
        /\ Len(result[a].tool_calls) = 3
        /\ Len(ToolMessages(Transcript(a))) = 3
        /\ ~result[a].tool_calls[2].success
        /\ result[a].tool_calls[3].success
        /\ result[a].tool_calls[2].tool # result[a].tool_calls[3].tool

\* C39: the iteration count of a returned result is the number of backend
\* calls the run attempted, the one that faulted included, and is at least 0
\* and at most max_iterations; with max_iterations = 0 the run attempts no
\* backend call and ends in DONE_MAX_ITER with the two seed entries.
C39_IterationsCountCalls ==
    \A a \in alive :
        /\ backend_calls[a] <= config[a].max_iterations
        /\ frame[a].pc \in Returned =>
              /\ result[a].returned
              /\ result[a].iterations = backend_calls[a]
              /\ result[a].iterations \in 0 .. config[a].max_iterations
        /\ (frame[a].pc # "idle" /\ config[a].max_iterations = 0) =>
              /\ frame[a].pc = "return_max_iter"
              /\ backend_calls[a] = 0
              /\ result[a].iterations = 0
              /\ ~result[a].success
              /\ result[a].error = MaxIterError(0)
              /\ Transcript(a) = Seeds(a, frame[a].task)

\* C39 witness: the second backend call of a run faulted; the result counts
\* two iterations.
C39_Witness ==
    \E a \in alive :
        /\ frame[a].pc = "return_error"
        /\ result[a].error = BackendFault
        /\ result[a].iterations = 2
        /\ backend_calls[a] = 2

\* C39 witness, no iterations allowed: the run has returned without a
\* backend call.
C39_WitnessZero ==
    \E a \in alive :
        /\ config[a].max_iterations = 0
        /\ frame[a].pc = "return_max_iter"
        /\ backend_calls[a] = 0
        /\ Len(Transcript(a)) = 2

\* The positions, among the tools an agent was constructed with, of those
\* that derive and have the given name; and the last of them.
Registered(a, tool_name) ==
    {i \in DOMAIN config[a].tools \ Faulty(a) :
        config[a].tools[i].__name__ = tool_name}

LastRegistered(a, tool_name) ==
    config[a].tools[CHOOSE i \in Registered(a, tool_name) :
                        \A j \in Registered(a, tool_name) : j <= i]

\* C38: for every name under which tools of an agent were registered, as
\* many contracts carry the name as tools were registered under it, the
\* registry has one entry for it, which is the tool registered last, and
\* a dispatch of the name runs that tool.
C38_LaterRegistrationWins ==
    \A a \in alive :
        /\ \A tool_name \in config[a].tool_map :
              /\ Cardinality({k \in DOMAIN config[a].tool_schemas :
                     config[a].tool_schemas[k].function.name = tool_name})
                    = Cardinality(Registered(a, tool_name))
              /\ Cardinality({k \in DOMAIN config[a].tool_funcs :
                     config[a].tool_funcs[k][1] = tool_name}) = 1
              /\ Get(config[a].tool_funcs, tool_name)
                    = LastRegistered(a, tool_name)
        /\ \A k \in DOMAIN frame[a].results :
              frame[a].results[k].func
                  = LastRegistered(a, frame[a].results[k].tool_name)

\* C38 witness: the wrappers of two agents were registered under one name,
\* both contracts are advertised, and a dispatch of the name ran the second.
C38_Witness ==
    /\ Root \in alive
    /\ config[Root].tools = <<researcher_tool, librarian_tool>>
    /\ Len(config[Root].tool_schemas) = 2
    /\ config[Root].tool_schemas[1].function.name = "researcher"
    /\ config[Root].tool_schemas[2].function.name = "researcher"
    /\ config[Root].tool_schemas[1] # config[Root].tool_schemas[2]
    /\ config[Root].tool_map = {"researcher"}
    /\ frame[Root].results =
          <<[raised |-> FALSE, tool_name |-> "researcher",
             func |-> librarian_tool]>>

====
